---- MODULE Spec2Model ----
(***************************************************************************)
(* Freshness-aware caching, stale fallback and dashboard composition of    *)
(* the market-data backend (CoinGecko prices/overview, Fear & Greed,       *)
(* funding rates), modelled from backend/app/services and backend/app/api. *)
(*                                                                         *)
(* Conventions.  A Python Optional result is Some(v) / Nothing.  A         *)
(* nullable number inside a row is <<v>> / <<>> (None).  A request that    *)
(* names no coin ids (None, or the empty list) is the empty sequence.      *)
(* Handlers are coroutines: an action is the code between two network      *)
(* awaits, so overlapping requests interleave exactly at upstream calls.   *)
(***************************************************************************)
EXTENDS Integers, Sequences, FiniteSets, TLC

VARIABLES
    scope,                  \* the service this behaviour's requests go to
    now,                    \* time(), whole seconds
    calls,                  \* requests accepted so far
    simple_prices_cache,    \* CoinGeckoService._simple_prices_cache, insertion order
    overview_cache,         \* CoinGeckoService._overview_cache
    current_cache,          \* FearGreedService._current_cache
    history_cache,          \* FearGreedService._history_cache, insertion order
    reqs,                   \* the route handlers suspended on an upstream call
    fetched,                \* history: keys whose live fetch has succeeded, per resolver
    last,                   \* the response most recently given to a caller
    _alerts,                \* AlertsService._alerts: the ids that are keys of the dict
    heap,                   \* the AlertResponse objects ever created, by id
    checks,                 \* the check_alerts calls suspended on an await
    telegram,               \* TELEGRAM_BOT_TOKEN and TELEGRAM_CHAT_ID are both set
    notified,               \* history: messages Telegram accepted, per alert
    gone_fired              \* history: alerts triggered when no longer in _alerts

alert_vars == <<_alerts, heap, checks, telegram, notified, gone_fired>>

vars == <<scope, now, calls, simple_prices_cache, overview_cache, current_cache,
          history_cache, reqs, fetched, last, alert_vars>>

-----------------------------------------------------------------------------
(* Bounds of the model *)

MaxCalls == 2        \* requests per behaviour
MaxLookupCalls == 4  \* requests per behaviour of the cache-lookup specification
MaxAlerts == 2       \* alerts created per behaviour
MaxChecks == 2       \* check_alerts calls per behaviour

(* Program constants *)

cache_ttl_seconds == 60

DEFAULT_COIN_IDS == <<"bitcoin", "ethereum", "solana", "ripple", "dogecoin">>

COIN_SYMBOL_MAP ==
    [c \in {"bitcoin", "ethereum", "solana", "ripple", "dogecoin"} |->
        CASE c = "bitcoin" -> "BTC"
          [] c = "ethereum" -> "ETH"
          [] c = "solana" -> "SOL"
          [] c = "ripple" -> "XRP"
          [] c = "dogecoin" -> "DOGE"]

-----------------------------------------------------------------------------
(* Generic helpers *)

Some(v) == [some |-> TRUE, val |-> v]
Nothing == [some |-> FALSE]

Range(s) == {s[i] : i \in 1..Len(s)}

OrZero(x) == IF x = <<>> THEN 0 ELSE x[1]

\* ",".join(items): the items with a "," between neighbours
RECURSIVE Join(_)
Join(items) ==
    IF Len(items) = 0 THEN <<>>
    ELSE IF Len(items) = 1 THEN <<items[1]>>
    ELSE <<items[1], ",">> \o Join(Tail(items))

-----------------------------------------------------------------------------
(* The upstream price source: what /simple/price returns for snapshot q *)

\* Three market snapshots: 1 lists every coin, 2 has market caps missing or
\* in another order, 3 does not list ethereum.
Quotes == {1, 2, 3}

\* The coin_ids a request may carry: none (the default five), one coin, or
\* two coins in either order.
CoinIdLists ==
    {<<>>, <<"bitcoin">>, <<"ethereum">>,
     <<"bitcoin", "ethereum">>, <<"ethereum", "bitcoin">>}

Idx(c) == CHOOSE i \in 1..Len(DEFAULT_COIN_IDS) : DEFAULT_COIN_IDS[i] = c

Listed(q, c) == ~(q % 3 = 0 /\ c = "ethereum")

MarketCap(q, c) ==
    CASE q % 3 = 1 -> <<(6 - Idx(c)) * 10>>
      [] q % 3 = 2 -> IF c = "bitcoin" THEN <<>> ELSE <<Idx(c) * 10>>
      [] OTHER -> <<10>>

CoinData(q, c) ==
    [usd |-> <<100 * q + Idx(c)>>,
     usd_market_cap |-> MarketCap(q, c),
     usd_24h_vol |-> <<q>>,
     usd_24h_change |-> <<q - 2>>,
     last_updated_at |-> <<q>>]

SimplePricePayload(q, ids) ==
    [c \in {d \in Range(ids) : Listed(q, d)} |-> CoinData(q, c)]

-----------------------------------------------------------------------------
(* CoinGeckoService: cache readers *)

_is_cache_fresh_strict(cached_at, t) == (t - cached_at) < cache_ttl_seconds

_is_cache_fresh(cached_at, t) == (t - cached_at) <= cache_ttl_seconds

_simple_prices_cache_key(coin_ids) ==
    IF Len(coin_ids) = 0 THEN Join(DEFAULT_COIN_IDS) ELSE Join(coin_ids)

\* dict.get(key) on an insertion-ordered dict
DictGet(cache, key) ==
    IF \E i \in 1..Len(cache) : cache[i].key = key
    THEN Some(cache[CHOOSE i \in 1..Len(cache) : cache[i].key = key])
    ELSE Nothing

DictPut_evicting(cache, key, entry) == <<entry>>

\* dict[key] = entry: an existing key keeps its position, a new key goes last
DictPut(cache, key, entry) ==
    IF \E i \in 1..Len(cache) : cache[i].key = key
    THEN [i \in 1..Len(cache) |-> IF cache[i].key = key THEN entry ELSE cache[i]]
    ELSE Append(cache, entry)

\* row_by_id of one cached entry: a later row with the same id wins
RowById(rows, id) ==
    rows[CHOOSE i \in 1..Len(rows) :
            /\ rows[i].id = id
            /\ \A j \in (i + 1)..Len(rows) : rows[j].id # id]

RowIds(rows) == {rows[i].id : i \in 1..Len(rows)}

OrDefault(coin_ids) == IF Len(coin_ids) = 0 THEN DEFAULT_COIN_IDS ELSE coin_ids

get_cached_simple_prices_row_order(cache, coin_ids) ==
    LET key == _simple_prices_cache_key(coin_ids)
        entry == DictGet(cache, key)
        requested == Range(OrDefault(coin_ids))
        covering == {i \in 1..Len(cache) : requested \subseteq RowIds(cache[i].data)}
    IN  IF entry.some THEN Some(entry.val.data)
        ELSE IF covering = {} THEN Nothing
        ELSE LET first == CHOOSE i \in covering : \A j \in covering : i <= j
                 rows == cache[first].data
             IN  Some(SelectSeq(rows, LAMBDA r : r.id \in requested))

get_cached_simple_prices_latest(cache, coin_ids) ==
    LET key == _simple_prices_cache_key(coin_ids)
        entry == DictGet(cache, key)
        requested == Range(OrDefault(coin_ids))
        covering == {i \in 1..Len(cache) : requested \subseteq RowIds(cache[i].data)}
    IN  IF entry.some THEN Some(entry.val.data)
        ELSE IF covering = {} THEN Nothing
        ELSE LET latest == CHOOSE i \in covering :
                               \A j \in covering :
                                   \/ cache[j].cached_at < cache[i].cached_at
                                   \/ cache[j].cached_at = cache[i].cached_at /\ i <= j
                 rows == cache[latest].data
                 ids == OrDefault(coin_ids)
             IN  Some([k \in 1..Len(ids) |-> RowById(rows, ids[k])])

get_cached_simple_prices(cache, coin_ids) ==
    LET key == _simple_prices_cache_key(coin_ids)
        entry == DictGet(cache, key)
        requested == Range(OrDefault(coin_ids))
        covering == {i \in 1..Len(cache) : requested \subseteq RowIds(cache[i].data)}
    IN  IF entry.some THEN Some(entry.val.data)
        ELSE IF covering = {} THEN Nothing
        ELSE LET first == CHOOSE i \in covering : \A j \in covering : i <= j
                 rows == cache[first].data
                 ids == OrDefault(coin_ids)
             IN  Some([k \in 1..Len(ids) |-> RowById(rows, ids[k])])

get_fresh_cached_simple_prices_any_superset(cache, coin_ids, t) ==
    LET key == _simple_prices_cache_key(coin_ids)
        entry == DictGet(cache, key)
        requested == Range(OrDefault(coin_ids))
        covering == {i \in 1..Len(cache) :
                        /\ requested \subseteq RowIds(cache[i].data)
                        /\ _is_cache_fresh(cache[i].cached_at, t)}
    IN  IF entry.some /\ _is_cache_fresh(entry.val.cached_at, t)
        THEN Some(entry.val.data)
        ELSE IF covering = {} THEN Nothing
        ELSE LET first == CHOOSE i \in covering : \A j \in covering : i <= j
                 rows == cache[first].data
                 ids == OrDefault(coin_ids)
             IN  Some([k \in 1..Len(ids) |-> RowById(rows, ids[k])])

get_fresh_cached_simple_prices(cache, coin_ids, t) ==
    LET key == _simple_prices_cache_key(coin_ids)
        entry == DictGet(cache, key)
    IN  IF ~entry.some THEN Nothing
        ELSE IF ~_is_cache_fresh(entry.val.cached_at, t) THEN Nothing
        ELSE Some(entry.val.data)

-----------------------------------------------------------------------------
(* CoinGeckoService.get_simple_prices *)

PriceRow(coin_id, coin_data) ==
    [id |-> coin_id,
     symbol |-> COIN_SYMBOL_MAP[coin_id],
     price_usd |-> coin_data.usd,
     market_cap |-> coin_data.usd_market_cap,
     volume_24h |-> coin_data.usd_24h_vol,
     change_24h_pct |-> coin_data.usd_24h_change,
     last_updated_at |-> coin_data.last_updated_at]

\* for coin_id in ids: if coin_id not in payload: continue; data.append({...})
RECURSIVE NormalizePrices(_, _)
NormalizePrices(payload, ids) ==
    IF Len(ids) = 0 THEN <<>>
    ELSE (IF Head(ids) \in DOMAIN payload
          THEN <<PriceRow(Head(ids), payload[Head(ids)])>>
          ELSE <<>>) \o NormalizePrices(payload, Tail(ids))

\* sorted(data, key=lambda item: item.get("market_cap") or 0, reverse=True):
\* stable, so rows of equal key keep their order
InsertByCap(acc, row) ==
    LET ahead == Cardinality({i \in 1..Len(acc) :
                     OrZero(acc[i].market_cap) >= OrZero(row.market_cap)})
    IN  SubSeq(acc, 1, ahead) \o <<row>> \o SubSeq(acc, ahead + 1, Len(acc))

RECURSIVE SortInto(_, _)
SortInto(acc, rest) ==
    IF Len(rest) = 0 THEN acc ELSE SortInto(InsertByCap(acc, Head(rest)), Tail(rest))

SortedByMarketCap_as_given(data) == data

SortedByMarketCap(data) == SortInto(<<>>, data)

\* Failures of one upstream call.  status_error and request_error are the httpx
\* errors _request_json turns into HTTPException(502); bad_json is a body that
\* response.json() cannot decode, which no handler converts.
HttpFailures == {"status_error", "request_error"}
Failures == HttpFailures \cup {"bad_json"}

PriceOutcomes == [kind : {"ok"}, q : Quotes] \cup [kind : Failures]

CoinGeckoDetail(kind) ==
    IF kind = "status_error" THEN "CoinGecko API error: 429"
    ELSE "cannot connect CoinGecko API"

\* History kept with a task for the properties: the entry under the exact key
\* when the call started (entry0), whether its age was within the TTL then
\* (within0), whether an entry for the same coins in any order was within the
\* TTL then (alias0), and the kind of failure of its upstream call (failure).
ExactEntry(cache, ids) ==
    LET hits == {i \in 1..Len(cache) : cache[i].key = Join(ids)}
    IN  IF hits = {} THEN Nothing ELSE Some(cache[CHOOSE i \in hits : TRUE])

WithinTtl(entry, t) == entry.some /\ t - entry.val.cached_at <= cache_ttl_seconds

KeyIds(key) == SelectSeq(key, LAMBDA x : x # ",")

SameCoins(a, b) == Len(a) = Len(b) /\ Range(a) = Range(b)

AliasWithinTtl(cache, ids, t) ==
    \E i \in 1..Len(cache) :
        /\ SameCoins(KeyIds(cache[i].key), ids)
        /\ t - cache[i].cached_at <= cache_ttl_seconds

StartPrices_join_in_flight(cache, coin_ids, t) ==
    LET ids == OrDefault(coin_ids)
        fresh_cached == get_fresh_cached_simple_prices(cache, ids, t)
        hist == [ids |-> ids, entry0 |-> ExactEntry(cache, ids),
                 within0 |-> WithinTtl(ExactEntry(cache, ids), t),
                 alias0 |-> AliasWithinTtl(cache, ids, t), failure |-> ""]
        in_flight == \E s \in DOMAIN reqs :
                        /\ reqs[s].route = "prices"
                        /\ reqs[s].p.pc = "await"
                        /\ reqs[s].p.ids = ids
    IN  IF fresh_cached.some
        THEN hist @@ [pc |-> "done", outcome |-> "ok", val |-> fresh_cached.val,
                      path |-> "fresh_cache", nreq |-> 0, detail |-> ""]
        ELSE hist @@ [pc |-> "await", outcome |-> "", val |-> <<>>, path |-> "",
                      nreq |-> IF in_flight THEN 0 ELSE 1, detail |-> ""]

\* get_simple_prices up to its first await
StartPrices(cache, coin_ids, t) ==
    LET ids == OrDefault(coin_ids)
        fresh_cached == get_fresh_cached_simple_prices(cache, ids, t)
        hist == [ids |-> ids, entry0 |-> ExactEntry(cache, ids),
                 within0 |-> WithinTtl(ExactEntry(cache, ids), t),
                 alias0 |-> AliasWithinTtl(cache, ids, t), failure |-> ""]
    IN  IF fresh_cached.some
        THEN hist @@ [pc |-> "done", outcome |-> "ok", val |-> fresh_cached.val,
                      path |-> "fresh_cache", nreq |-> 0, detail |-> ""]
        ELSE hist @@ [pc |-> "await", outcome |-> "", val |-> <<>>,
                      path |-> "", nreq |-> 1, detail |-> ""]

FinishPrices_first_writer_wins(task, cache, t, out) ==
    IF out.kind = "ok"
    THEN LET payload == SimplePricePayload(out.q, task.ids)
             sorted_data == SortedByMarketCap(NormalizePrices(payload, task.ids))
             cache_key == _simple_prices_cache_key(task.ids)
         IN  [task |-> [task EXCEPT !.pc = "done", !.outcome = "ok",
                                    !.val = sorted_data, !.path = "live"],
              cache |-> IF DictGet(cache, cache_key) # task.entry0
                        THEN cache
                        ELSE DictPut(cache, cache_key,
                                     [key |-> cache_key, cached_at |-> t,
                                      data |-> sorted_data])]
    ELSE IF out.kind \in HttpFailures
    THEN LET cached == get_cached_simple_prices(cache, task.ids)
         IN  [task |-> IF cached.some
                       THEN [task EXCEPT !.pc = "done", !.outcome = "ok",
                                         !.val = cached.val, !.path = "stale_cache",
                                         !.detail = CoinGeckoDetail(out.kind),
                                         !.failure = out.kind]
                       ELSE [task EXCEPT !.pc = "done", !.outcome = "HTTPException",
                                         !.path = "error",
                                         !.detail = CoinGeckoDetail(out.kind),
                                         !.failure = out.kind],
              cache |-> cache]
    ELSE [task |-> [task EXCEPT !.pc = "done", !.outcome = "Exception",
                                !.path = "error", !.detail = "invalid JSON",
                                !.failure = out.kind],
          cache |-> cache]

\* get_simple_prices from the upstream's answer to its return or raise
FinishPrices(task, cache, t, out) ==
    IF out.kind = "ok"
    THEN LET payload == SimplePricePayload(out.q, task.ids)
             sorted_data == SortedByMarketCap(NormalizePrices(payload, task.ids))
             cache_key == _simple_prices_cache_key(task.ids)
         IN  [task |-> [task EXCEPT !.pc = "done", !.outcome = "ok",
                                    !.val = sorted_data, !.path = "live"],
              cache |-> DictPut(cache, cache_key,
                                [key |-> cache_key, cached_at |-> t, data |-> sorted_data])]
    ELSE IF out.kind \in HttpFailures
    THEN LET cached == get_cached_simple_prices(cache, task.ids)
         IN  [task |-> IF cached.some
                       THEN [task EXCEPT !.pc = "done", !.outcome = "ok",
                                         !.val = cached.val, !.path = "stale_cache",
                                         !.detail = CoinGeckoDetail(out.kind),
                                         !.failure = out.kind]
                       ELSE [task EXCEPT !.pc = "done", !.outcome = "HTTPException",
                                         !.path = "error",
                                         !.detail = CoinGeckoDetail(out.kind),
                                         !.failure = out.kind],
              cache |-> cache]
    ELSE [task |-> [task EXCEPT !.pc = "done", !.outcome = "Exception",
                                !.path = "error", !.detail = "invalid JSON",
                                !.failure = out.kind],
          cache |-> cache]

-----------------------------------------------------------------------------
(* CoinGeckoService.get_market_overview *)

\* What /global returns for snapshot q: snapshot 2 lacks the dominance figures
GlobalPayload(q) ==
    [active_cryptocurrencies |-> <<9000 + q>>,
     markets |-> <<700 + q>>,
     total_market_cap_usd |-> <<2000 + q>>,
     total_volume_usd |-> <<80 + q>>,
     btc_pct |-> IF q % 3 = 2 THEN <<>> ELSE <<50 + q>>,
     eth_pct |-> IF q % 3 = 2 THEN <<>> ELSE <<15 + q>>,
     market_cap_change_percentage_24h_usd |-> <<q - 2>>]

\* get_global_overview: the fields picked out of the payload
GlobalOverview(payload) ==
    [active_cryptocurrencies |-> payload.active_cryptocurrencies,
     markets |-> payload.markets,
     total_market_cap_usd |-> payload.total_market_cap_usd,
     total_volume_24h_usd |-> payload.total_volume_usd,
     btc_dominance_pct |-> payload.btc_pct,
     eth_dominance_pct |-> payload.eth_pct,
     market_cap_change_24h_pct |-> payload.market_cap_change_percentage_24h_usd]

\* What /search/trending returns for snapshot q: the items of 6, 1 or 0 coins
TrendingPayload(q) ==
    LET n == CASE q % 3 = 1 -> 6 [] q % 3 = 2 -> 1 [] OTHER -> 0
    IN  [i \in 1..n |->
            [id |-> <<DEFAULT_COIN_IDS[((i + q) % 5) + 1]>>,
             name |-> <<DEFAULT_COIN_IDS[((i + q) % 5) + 1]>>,
             symbol |-> <<COIN_SYMBOL_MAP[DEFAULT_COIN_IDS[((i + q) % 5) + 1]]>>,
             market_cap_rank |-> IF i = 1 THEN <<>> ELSE <<i>>,
             thumb |-> <<"thumb.png">>,
             score |-> <<i - 1>>]]

TrendingLimit == 5

\* get_trending(limit=5): the fields picked out of coins[:limit]
Trending(payload, limit) ==
    [i \in 1..(IF Len(payload) < limit THEN Len(payload) ELSE limit) |->
        [id |-> payload[i].id,
         name |-> payload[i].name,
         symbol |-> payload[i].symbol,
         market_cap_rank |-> payload[i].market_cap_rank,
         thumb |-> payload[i].thumb,
         score |-> payload[i].score]]

OverviewOutcomes == [kind : {"ok"}, q : Quotes] \cup [kind : Failures]

get_cached_market_overview_or_empty(cache) ==
    IF ~cache.some THEN Some([global |-> <<>>, trending |-> <<>>])
    ELSE Some(cache.val.data)

get_cached_market_overview(cache) ==
    IF ~cache.some THEN Nothing ELSE Some(cache.val.data)

get_fresh_cached_market_overview(cache, t) ==
    IF ~cache.some THEN Nothing
    ELSE IF ~_is_cache_fresh(cache.val.cached_at, t) THEN Nothing
    ELSE Some(cache.val.data)

\* get_market_overview up to its first await
StartOverview(cache, t) ==
    LET fresh_cached == get_fresh_cached_market_overview(cache, t)
        hist == [entry0 |-> cache, within0 |-> WithinTtl(cache, t), failure |-> ""]
    IN  IF fresh_cached.some
        THEN hist @@ [pc |-> "done", outcome |-> "ok", val |-> fresh_cached.val,
                      path |-> "fresh_cache", nreq |-> 0, detail |-> "",
                      global_data |-> <<>>]
        ELSE hist @@ [pc |-> "await_global", outcome |-> "", val |-> <<>>,
                      path |-> "", nreq |-> 1, detail |-> "", global_data |-> <<>>]

\* except HTTPException: the cached overview if there is one, else re-raise;
\* any other exception leaves get_market_overview as it is
OverviewFailed(task, cache, kind) ==
    IF kind \in HttpFailures
    THEN LET cached == get_cached_market_overview(cache)
         IN  IF cached.some
             THEN [task EXCEPT !.pc = "done", !.outcome = "ok", !.val = cached.val,
                               !.path = "stale_cache",
                               !.detail = CoinGeckoDetail(kind), !.failure = kind]
             ELSE [task EXCEPT !.pc = "done", !.outcome = "HTTPException",
                               !.path = "error", !.detail = CoinGeckoDetail(kind),
                               !.failure = kind]
    ELSE [task EXCEPT !.pc = "done", !.outcome = "Exception", !.path = "error",
                      !.detail = "invalid JSON", !.failure = kind]

GlobalReturned_retry(task, cache, out) ==
    IF out.kind = "ok"
    THEN [task EXCEPT !.pc = "await_trending",
                      !.global_data = GlobalOverview(GlobalPayload(out.q)),
                      !.nreq = @ + 1]
    ELSE IF task.nreq < 2 THEN [task EXCEPT !.nreq = @ + 1]
    ELSE OverviewFailed(task, cache, out.kind)

\* get_market_overview from the answer of /global to the next await or the end
GlobalReturned(task, cache, out) ==
    IF out.kind = "ok"
    THEN [task EXCEPT !.pc = "await_trending",
                      !.global_data = GlobalOverview(GlobalPayload(out.q)),
                      !.nreq = @ + 1]
    ELSE OverviewFailed(task, cache, out.kind)

TrendingReturned_keeps_global(task, cache, t, out) ==
    IF out.kind = "ok"
    THEN LET overview == [global |-> task.global_data,
                          trending |-> Trending(TrendingPayload(out.q), TrendingLimit)]
         IN  [task |-> [task EXCEPT !.pc = "done", !.outcome = "ok",
                                    !.val = overview, !.path = "live"],
              cache |-> Some([cached_at |-> t, data |-> overview])]
    ELSE [task |-> OverviewFailed(task, cache, out.kind),
          cache |-> IF cache.some
                    THEN Some([cached_at |-> t,
                               data |-> [global |-> task.global_data,
                                         trending |-> cache.val.data.trending]])
                    ELSE cache]

\* get_market_overview from the answer of /search/trending to its end
TrendingReturned(task, cache, t, out) ==
    IF out.kind = "ok"
    THEN LET overview == [global |-> task.global_data,
                          trending |-> Trending(TrendingPayload(out.q), TrendingLimit)]
         IN  [task |-> [task EXCEPT !.pc = "done", !.outcome = "ok",
                                    !.val = overview, !.path = "live"],
              cache |-> Some([cached_at |-> t, data |-> overview])]
    ELSE [task |-> OverviewFailed(task, cache, out.kind), cache |-> cache]

-----------------------------------------------------------------------------
(* FearGreedService *)

\* int("25"): a decimal string is the sequence of its digits
DigitValue(ch) ==
    CASE ch = "0" -> 0 [] ch = "1" -> 1 [] ch = "2" -> 2 [] ch = "3" -> 3
      [] ch = "4" -> 4 [] ch = "5" -> 5 [] ch = "6" -> 6 [] ch = "7" -> 7
      [] ch = "8" -> 8 [] ch = "9" -> 9

RECURSIVE ParseInt(_)
ParseInt(digits) ==
    IF Len(digits) = 0 THEN 0
    ELSE 10 * ParseInt(SubSeq(digits, 1, Len(digits) - 1)) + DigitValue(digits[Len(digits)])

\* strftime("%Y-%m-%d %H:%M:%S UTC") of a UTC timestamp; the calendar date is
\* kept as the day number since the epoch
FormatUtc(ts) ==
    [day |-> ts \div 86400, hh |-> (ts % 86400) \div 3600,
     mm |-> (ts % 3600) \div 60, ss |-> ts % 60, zone |-> "UTC"]

\* datetime.fromtimestamp(ts).strftime("%Y-%m-%d"): the date in the server's
\* own time zone, taken here to be UTC+8
LocalOffset == 8 * 3600
LocalDate(ts) == [day |-> (ts + LocalOffset) \div 86400]

\* The index series upstream: item i of snapshot q, newest first
FngItem(q, i) ==
    [value |-> IF q = 1 THEN <<"2", "5">> ELSE <<"7">>,
     value_classification |-> IF q = 1 THEN "Extreme Fear" ELSE "Greed",
     timestamp |-> IF i = 1 THEN <<"1", "7", "2", "8", "0", "0">>
                   ELSE <<"8", "6", "4", "0", "0">>]

FngQuotes == {1, 2}
FngAvailable(q) == IF q = 1 THEN 1 ELSE 2

\* GET /fng/?limit=n: at most n items, fewer when upstream has fewer
FngPayload(q, limit) ==
    [i \in 1..(IF FngAvailable(q) < limit THEN FngAvailable(q) ELSE limit) |->
        FngItem(q, i)]

\* no_data is a reachable upstream whose "data" list is missing or empty
FngOutcomes == [kind : {"ok"}, q : FngQuotes] \cup [kind : Failures \cup {"no_data"}]

FearGreedDetail(kind) ==
    CASE kind = "status_error" -> "Fear & Greed API error: 503"
      [] kind = "request_error" -> "cannot connect Fear & Greed API"
      [] kind = "no_data" -> "Fear & Greed API returned no data"
      [] OTHER -> "invalid JSON"

get_cached_current_absent(cache) == Nothing

get_cached_current(cache) == cache

get_cached_history_or_empty(cache, days) ==
    LET cached == DictGet(cache, days)
    IN  IF ~cached.some THEN Some(<<>>) ELSE Some(cached.val.data)

get_cached_history(cache, days) ==
    LET cached == DictGet(cache, days)
    IN  IF ~cached.some THEN Nothing ELSE Some(cached.val.data)

\* get_current from the upstream's answer on: [outcome, detail, val, cache]
get_current(cache, out) ==
    IF out.kind = "ok"
    THEN LET latest == FngPayload(out.q, 1)[1]
             latest_timestamp == ParseInt(latest.timestamp)
             result == [value |-> ParseInt(latest.value),
                        value_classification |-> latest.value_classification,
                        timestamp |-> latest_timestamp,
                        time_updated |-> FormatUtc(latest_timestamp)]
         IN  [outcome |-> "ok", detail |-> "", val |-> result, cache |-> Some(result)]
    ELSE IF out.kind \in HttpFailures \cup {"no_data"}
    THEN [outcome |-> "HTTPException", detail |-> FearGreedDetail(out.kind),
          val |-> <<>>, cache |-> cache]
    ELSE [outcome |-> "Exception", detail |-> FearGreedDetail(out.kind),
          val |-> <<>>, cache |-> cache]

\* data["is_stale"] = ...: the keys set on a dict replace the ones it had
WithFlags(row, flags) == flags @@ row

get_current_safe_aliased(cache, out) ==
    LET got == get_current(cache, out)
        cached == get_cached_current(cache)
    IN  IF got.outcome = "ok"
        THEN LET data == WithFlags(got.val,
                            [is_stale |-> FALSE, data_source |-> "alternative_me"])
             IN  [got EXCEPT !.val = data, !.cache = Some(data)]
        ELSE IF got.outcome = "HTTPException" /\ cached.some
        THEN LET data == WithFlags(cached.val,
                            [is_stale |-> TRUE,
                             data_source |-> "alternative_me_cache",
                             fallback_reason |-> got.detail])
             IN  [got EXCEPT !.outcome = "ok", !.val = data, !.cache = Some(data)]
        ELSE got

\* get_current_safe from the upstream's answer on
get_current_safe(cache, out) ==
    LET got == get_current(cache, out)
        cached == get_cached_current(cache)
    IN  IF got.outcome = "ok"
        THEN [got EXCEPT !.val = WithFlags(got.val,
                    [is_stale |-> FALSE, data_source |-> "alternative_me"])]
        ELSE IF got.outcome = "HTTPException" /\ cached.some
        THEN [got EXCEPT !.outcome = "ok",
                         !.val = WithFlags(cached.val,
                                    [is_stale |-> TRUE,
                                     data_source |-> "alternative_me_cache",
                                     fallback_reason |-> got.detail])]
        ELSE got

HistoryLimit == 100

RequestLimit_cap_only(days) == HistoryLimit

\* limit = min(days, 100)
RequestLimit(days) == IF days < HistoryLimit THEN days ELSE HistoryLimit

\* get_history(days) from the upstream's answer on: an empty "data" is an
\* empty history, not an error
get_history(cache, days, out) ==
    IF out.kind \in {"ok", "no_data"}
    THEN LET limit == RequestLimit(days)
             items == IF out.kind = "ok" THEN FngPayload(out.q, limit) ELSE <<>>
             history == [i \in 1..Len(items) |->
                            [value |-> ParseInt(items[i].value),
                             value_classification |-> items[i].value_classification,
                             timestamp |-> ParseInt(items[i].timestamp),
                             date |-> LocalDate(ParseInt(items[i].timestamp))]]
         IN  [outcome |-> "ok", detail |-> "", val |-> history,
              cache |-> DictPut(cache, days, [key |-> days, data |-> history])]
    ELSE IF out.kind \in HttpFailures
    THEN [outcome |-> "HTTPException", detail |-> FearGreedDetail(out.kind),
          val |-> <<>>, cache |-> cache]
    ELSE [outcome |-> "Exception", detail |-> FearGreedDetail(out.kind),
          val |-> <<>>, cache |-> cache]

\* get_history_safe(days) from the upstream's answer on
get_history_safe(cache, days, out) ==
    LET got == get_history(cache, days, out)
        cached == get_cached_history(cache, days)
    IN  IF got.outcome = "HTTPException" /\ cached.some
        THEN [got EXCEPT !.outcome = "ok", !.val = cached.val]
        ELSE got

-----------------------------------------------------------------------------
(* FundingRateService *)

DEFAULT_SYMBOLS == <<"BTCUSDT", "ETHUSDT", "SOLUSDT">>

\* Funding rates are whole numbers of millionths.
\* Binance premiumIndex: snapshot 1 lists every contract (and one nobody asked
\* for), snapshot 2 lists BTCUSDT alone.
BinancePayload(r) ==
    IF r = 1
    THEN <<[symbol |-> "BTCUSDT", lastFundingRate |-> 100, nextFundingTime |-> <<8>>],
           [symbol |-> "XRPUSDT", lastFundingRate |-> 70, nextFundingTime |-> <<8>>],
           [symbol |-> "ETHUSDT", lastFundingRate |-> -50, nextFundingTime |-> <<8>>],
           [symbol |-> "SOLUSDT", lastFundingRate |-> 0, nextFundingTime |-> <<>>]>>
    ELSE <<[symbol |-> "BTCUSDT", lastFundingRate |-> 300, nextFundingTime |-> <<16>>]>>

\* Bybit tickers: snapshot 1 has no fundingRate for ETHUSDT, snapshot 2 is empty
BybitPayload(r) ==
    IF r = 1
    THEN <<[symbol |-> "ETHUSDT", fundingRate |-> <<>>, nextFundingTime |-> <<8>>],
           [symbol |-> "BTCUSDT", fundingRate |-> <<200>>, nextFundingTime |-> <<8>>],
           [symbol |-> "SOLUSDT", fundingRate |-> <<30>>, nextFundingTime |-> <<8>>]>>
    ELSE <<>>

FundingQuotes == {1, 2}
FundingOutcomes == [kind : {"ok"}, r : FundingQuotes] \cup [kind : Failures]

\* _fetch_binance: the rows of the requested symbols
_fetch_binance(payload, symbols) ==
    LET wanted == SelectSeq(payload, LAMBDA item : item.symbol \in Range(symbols))
    IN  [i \in 1..Len(wanted) |->
            [symbol |-> wanted[i].symbol, source |-> "binance",
             funding_rate |-> <<wanted[i].lastFundingRate>>,
             next_funding_time |-> wanted[i].nextFundingTime]]

\* _fetch_bybit: the rows of the requested symbols, the rate None when absent
_fetch_bybit(payload, symbols) ==
    LET wanted == SelectSeq(payload, LAMBDA item : item.symbol \in Range(symbols))
    IN  [i \in 1..Len(wanted) |->
            [symbol |-> wanted[i].symbol, source |-> "bybit",
             funding_rate |-> wanted[i].fundingRate,
             next_funding_time |-> wanted[i].nextFundingTime]]

\* combined[row["symbol"]][exchange] = {...} for each row: the last row of a
\* symbol wins; None (<<>>) when the exchange gave no row for it
ExchangeCell(rows, symbol) ==
    LET hits == {i \in 1..Len(rows) : rows[i].symbol = symbol}
    IN  IF hits = {} THEN <<>>
        ELSE LET row == rows[CHOOSE i \in hits : \A j \in hits : j <= i]
             IN  <<[funding_rate |-> row.funding_rate,
                    next_funding_time |-> row.next_funding_time]>>

AverageRate_over_both(binance, bybit) ==
    LET b == IF binance # <<>> /\ binance[1].funding_rate # <<>>
             THEN binance[1].funding_rate[1] ELSE 0
        y == IF bybit # <<>> /\ bybit[1].funding_rate # <<>>
             THEN bybit[1].funding_rate[1] ELSE 0
    IN  <<[num |-> b + y, den |-> 2]>>

\* sum(rates) / len(rates), kept exact as numerator and denominator
AverageRate(binance, bybit) ==
    LET rates == (IF binance # <<>> /\ binance[1].funding_rate # <<>>
                  THEN <<binance[1].funding_rate[1]>> ELSE <<>>)
                 \o (IF bybit # <<>> /\ bybit[1].funding_rate # <<>>
                     THEN <<bybit[1].funding_rate[1]>> ELSE <<>>)
    IN  IF Len(rates) = 0 THEN <<>>
        ELSE IF Len(rates) = 1 THEN <<[num |-> rates[1], den |-> 1]>>
        ELSE <<[num |-> rates[1] + rates[2], den |-> 2]>>

\* the keys of {symbol: ... for symbol in targets}: each symbol once, in the
\* order of its first occurrence
DictKeys(targets) ==
    SelectSeq([i \in 1..Len(targets) |->
                  IF \E j \in 1..(i - 1) : targets[j] = targets[i]
                  THEN <<>> ELSE <<targets[i]>>],
              LAMBDA x : x # <<>>)

\* the merge of get_merged_funding_rates: one row per key of combined, in
\* insertion order
MergeFunding(targets, binance_data, bybit_data) ==
    LET keys == DictKeys(targets)
    IN  [i \in 1..Len(keys) |->
            LET binance == ExchangeCell(binance_data, keys[i][1])
                bybit == ExchangeCell(bybit_data, keys[i][1])
            IN  [symbol |-> keys[i][1], binance |-> binance, bybit |-> bybit,
                 average_rate |-> AverageRate(binance, bybit)]]

\* get_merged_funding_rates up to its first await
StartFunding(symbols) ==
    [pc |-> "await_binance",
     targets |-> IF Len(symbols) = 0 THEN DEFAULT_SYMBOLS ELSE symbols,
     binance_data |-> <<>>, bybit_data |-> <<>>, outcome |-> "", val |-> <<>>,
     binance_failed |-> FALSE, bybit_failed |-> FALSE]

\* ... from the answer of Binance to the next await: an httpx error is
\* swallowed into an empty list, anything else leaves the coroutine
BinanceReturned(task, out) ==
    IF out.kind = "ok"
    THEN [task EXCEPT !.pc = "await_bybit",
                      !.binance_data = _fetch_binance(BinancePayload(out.r), task.targets)]
    ELSE IF out.kind \in HttpFailures
    THEN [task EXCEPT !.pc = "await_bybit", !.binance_failed = TRUE]
    ELSE [task EXCEPT !.pc = "done", !.outcome = "Exception", !.binance_failed = TRUE]

\* ... from the answer of Bybit to the end
BybitReturned(task, out) ==
    IF out.kind = "ok"
    THEN LET bybit_data == _fetch_bybit(BybitPayload(out.r), task.targets)
         IN  [task EXCEPT !.pc = "done", !.outcome = "ok",
                          !.bybit_data = bybit_data,
                          !.val = MergeFunding(task.targets, task.binance_data,
                                               bybit_data)]
    ELSE IF out.kind \in HttpFailures
    THEN [task EXCEPT !.pc = "done", !.outcome = "ok", !.bybit_failed = TRUE,
                      !.val = MergeFunding(task.targets, task.binance_data, <<>>)]
    ELSE [task EXCEPT !.pc = "done", !.outcome = "Exception", !.bybit_failed = TRUE]

-----------------------------------------------------------------------------
(* Routes of backend/app/api/market.py *)

\* Two handlers may be suspended on upstream calls at the same time.
Slots == {1, 2}
Idle == [route |-> "idle"]

FreeSlot(s, service) ==
    /\ scope = service
    /\ reqs[s] = Idle
    /\ \A r \in 1..(s - 1) : reqs[r] # Idle
    /\ calls < MaxCalls

\* A dashboard behaviour runs its dashboard requests one after the other, each
\* within one instant of the clock, and sees one snapshot of each upstream;
\* every kind of failure stays possible.
Offered(out) ==
    scope = "dashboard" =>
        /\ out.kind # "request_error"
        /\ out.kind = "ok" => out = [kind |-> "ok", q |-> 1] \/ out = [kind |-> "ok", r |-> 1]

\* last holds the response just given, for the properties to look at; it is
\* cleared when the next request is accepted.
NoResponse == [route |-> "none"]

\* What a caller receives: status 200 carries the body, 502 and 500 a detail.
\* With it go the time, the caches and the fetch history as they were when the
\* handler decided, and the handler's tasks (hist).
Respond(route, status, body, hist) ==
    [route |-> route, status |-> status, body |-> body,
     now |-> now, prices_cache |-> simple_prices_cache,
     overview_cache |-> overview_cache, fetched |-> fetched, hist |-> hist]

\* get_market_prices once get_simple_prices has returned or raised
PricesResponse(task, cache, coin_ids) ==
    IF task.outcome = "ok"
    THEN [status |-> 200,
          body |-> [data |-> task.val, is_stale |-> FALSE, data_source |-> "coingecko"]]
    ELSE IF task.outcome = "HTTPException"
    THEN LET cached_prices == get_cached_simple_prices(cache, coin_ids)
         IN  IF ~cached_prices.some
             THEN [status |-> 502, body |-> [detail |-> task.detail]]
             ELSE [status |-> 200,
                   body |-> [data |-> cached_prices.val, is_stale |-> TRUE,
                             data_source |-> "coingecko_cache",
                             fallback_reason |-> task.detail]]
    ELSE [status |-> 500, body |-> [detail |-> "Internal Server Error"]]

AcceptPrices(s, coin_ids) ==
    /\ calls' = calls + 1
    /\ LET task == StartPrices(simple_prices_cache, coin_ids, now)
       IN  IF task.pc = "done"
           THEN LET r == PricesResponse(task, simple_prices_cache, coin_ids)
                IN  /\ last' = Respond("prices", r.status, r.body,
                                      [coin_ids |-> coin_ids, p |-> task])
                    /\ reqs' = reqs
           ELSE /\ reqs' = [reqs EXCEPT ![s] =
                              [route |-> "prices", coin_ids |-> coin_ids, p |-> task]]
                /\ last' = NoResponse
    /\ UNCHANGED <<alert_vars, scope, now, simple_prices_cache, overview_cache, current_cache,
                   history_cache, fetched>>

get_market_prices(s, coin_ids) ==
    /\ FreeSlot(s, "prices")
    /\ AcceptPrices(s, coin_ids)

\* the /simple/price request of handler s ends
SimplePriceReturns(s, out) ==
    /\ reqs[s].route \in {"prices", "dashboard"}
    /\ reqs[s].p.pc = "await"
    /\ Offered(out)
    /\ LET fin == FinishPrices(reqs[s].p, simple_prices_cache, now, out)
           r == PricesResponse(fin.task, fin.cache, reqs[s].coin_ids)
       IN  /\ simple_prices_cache' = fin.cache
           /\ fetched' = IF out.kind = "ok"
                         THEN [fetched EXCEPT !.prices = @ \cup {Join(reqs[s].p.ids)}]
                         ELSE fetched
           /\ IF reqs[s].route = "prices"
              THEN /\ last' = Respond("prices", r.status, r.body,
                                      [coin_ids |-> reqs[s].coin_ids, p |-> fin.task])
                   /\ reqs' = [reqs EXCEPT ![s] = Idle]
              ELSE /\ last' = last
                   /\ reqs' = [reqs EXCEPT ![s].p = fin.task]
    /\ UNCHANGED <<alert_vars, scope, now, calls, overview_cache, current_cache, history_cache>>

\* get_market_overview (the route) once the service call has returned or raised
OverviewResponse(task, cache) ==
    IF task.outcome = "ok"
    THEN [status |-> 200,
          body |-> [data |-> task.val, is_stale |-> FALSE, data_source |-> "coingecko"]]
    ELSE IF task.outcome = "HTTPException"
    THEN LET cached_overview == get_cached_market_overview(cache)
         IN  IF ~cached_overview.some
             THEN [status |-> 502, body |-> [detail |-> task.detail]]
             ELSE [status |-> 200,
                   body |-> [data |-> cached_overview.val, is_stale |-> TRUE,
                             data_source |-> "coingecko_cache",
                             fallback_reason |-> task.detail]]
    ELSE [status |-> 500, body |-> [detail |-> "Internal Server Error"]]

get_market_overview(s) ==
    /\ FreeSlot(s, "overview")
    /\ calls' = calls + 1
    /\ LET task == StartOverview(overview_cache, now)
       IN  IF task.pc = "done"
           THEN LET r == OverviewResponse(task, overview_cache)
                IN  /\ last' = Respond("overview", r.status, r.body, [o |-> task])
                    /\ reqs' = reqs
           ELSE /\ reqs' = [reqs EXCEPT ![s] = [route |-> "overview", o |-> task]]
                /\ last' = NoResponse
    /\ UNCHANGED <<alert_vars, scope, now, simple_prices_cache, overview_cache, current_cache,
                   history_cache, fetched>>

\* the /global request of handler s ends
GlobalReturns(s, out) ==
    /\ reqs[s].route \in {"overview", "dashboard"}
    /\ reqs[s].o.pc = "await_global"
    /\ Offered(out)
    /\ LET task == GlobalReturned(reqs[s].o, overview_cache, out)
       IN  IF task.pc = "done" /\ reqs[s].route = "overview"
           THEN LET r == OverviewResponse(task, overview_cache)
                IN  /\ last' = Respond("overview", r.status, r.body, [o |-> task])
                    /\ reqs' = [reqs EXCEPT ![s] = Idle]
           ELSE /\ reqs' = [reqs EXCEPT ![s].o = task]
                /\ last' = last
    /\ UNCHANGED <<alert_vars, scope, now, calls, simple_prices_cache, overview_cache, current_cache,
                   history_cache, fetched>>

\* the /search/trending request of handler s ends
TrendingReturns(s, out) ==
    /\ reqs[s].route \in {"overview", "dashboard"}
    /\ reqs[s].o.pc = "await_trending"
    /\ Offered(out)
    /\ LET fin == TrendingReturned(reqs[s].o, overview_cache, now, out)
           r == OverviewResponse(fin.task, fin.cache)
       IN  /\ overview_cache' = fin.cache
           /\ fetched' = IF out.kind = "ok"
                         THEN [fetched EXCEPT !.overview = {"overview"}]
                         ELSE fetched
           /\ IF reqs[s].route = "overview"
              THEN /\ last' = Respond("overview", r.status, r.body, [o |-> fin.task])
                   /\ reqs' = [reqs EXCEPT ![s] = Idle]
              ELSE /\ last' = last
                   /\ reqs' = [reqs EXCEPT ![s].o = fin.task]
    /\ UNCHANGED <<alert_vars, scope, now, calls, simple_prices_cache, current_cache, history_cache>>

\* get_dashboard_data up to the await of asyncio.gather: the three coroutines
\* each run to their first upstream call (or, on a fresh cache hit, to their end)
get_dashboard_data(s, coin_ids, symbols) ==
    /\ FreeSlot(s, "dashboard")
    /\ \A r \in Slots : reqs[r] = Idle
    /\ calls' = calls + 1
    /\ reqs' = [reqs EXCEPT ![s] =
                  [route |-> "dashboard", coin_ids |-> coin_ids, symbols |-> symbols,
                   p |-> StartPrices(simple_prices_cache, coin_ids, now),
                   o |-> StartOverview(overview_cache, now),
                   f |-> StartFunding(symbols)]]
    /\ last' = NoResponse
    /\ UNCHANGED <<alert_vars, scope, now, simple_prices_cache, overview_cache, current_cache,
                   history_cache, fetched>>

\* get_funding_rates (the route) once get_merged_funding_rates has returned or
\* raised: nothing is caught, so an exception is FastAPI's 500
FundingResponse(task) ==
    IF task.outcome = "ok" THEN [status |-> 200, body |-> [data |-> task.val]]
    ELSE [status |-> 500, body |-> [detail |-> "Internal Server Error"]]

\* symbols: what _parse_csv_param makes of the query parameter
FundingSymbolLists ==
    {<<>>, <<"BTCUSDT">>, <<"ETHUSDT", "BTCUSDT">>, <<"BTCUSDT", "BTCUSDT">>,
     <<"DOGEUSDT">>}

get_funding_rates(s, symbols) ==
    /\ FreeSlot(s, "funding")
    /\ calls' = calls + 1
    /\ reqs' = [reqs EXCEPT ![s] =
                  [route |-> "funding", symbols |-> symbols,
                   f |-> StartFunding(symbols)]]
    /\ last' = NoResponse
    /\ UNCHANGED <<alert_vars, scope, now, simple_prices_cache, overview_cache, current_cache,
                   history_cache, fetched>>

\* handler s goes on with its funding task: /market/funding answers as soon as
\* the task has ended, the dashboard waits for its other tasks
FundingStep(s, task) ==
    IF reqs[s].route = "funding" /\ task.pc = "done"
    THEN LET r == FundingResponse(task)
         IN  /\ last' = Respond("funding", r.status, r.body,
                                [symbols |-> reqs[s].symbols, f |-> task])
             /\ reqs' = [reqs EXCEPT ![s] = Idle]
    ELSE /\ last' = last
         /\ reqs' = [reqs EXCEPT ![s].f = task]

\* the Binance request of handler s ends
BinanceReturns(s, out) ==
    /\ reqs[s].route \in {"dashboard", "funding"}
    /\ reqs[s].f.pc = "await_binance"
    /\ Offered(out)
    /\ FundingStep(s, BinanceReturned(reqs[s].f, out))
    /\ UNCHANGED <<alert_vars, scope, now, calls, simple_prices_cache, overview_cache,
                   current_cache, history_cache, fetched>>

\* the Bybit request of handler s ends
BybitReturns(s, out) ==
    /\ reqs[s].route \in {"dashboard", "funding"}
    /\ reqs[s].f.pc = "await_bybit"
    /\ Offered(out)
    /\ FundingStep(s, BybitReturned(reqs[s].f, out))
    /\ UNCHANGED <<alert_vars, scope, now, calls, simple_prices_cache, overview_cache,
                   current_cache, history_cache, fetched>>

StaleReasons_sources_only(prices_failed, overview_failed, funding_failed) ==
    (IF prices_failed THEN <<"prices: coingecko_cache">> ELSE <<>>)
    \o (IF overview_failed THEN <<"overview: coingecko_cache">> ELSE <<>>)

\* stale_reasons as get_dashboard_data appends to it, one branch after the other
StaleReasons(prices_failed, overview_failed, funding_failed) ==
    (IF prices_failed THEN <<"prices: coingecko_cache">> ELSE <<>>)
    \o (IF overview_failed THEN <<"overview: coingecko_cache">> ELSE <<>>)
    \o (IF funding_failed THEN <<"funding: unavailable">> ELSE <<>>)

\* get_dashboard_data after gather(..., return_exceptions=True) has returned
DashboardResponse(req, prices_cache, ov_cache, t) ==
    LET cached_prices == get_cached_simple_prices(prices_cache, req.coin_ids)
        cached_overview == get_cached_market_overview(ov_cache)
        prices_failed == req.p.outcome # "ok"
        overview_failed == req.o.outcome # "ok"
        funding_failed == req.f.outcome # "ok"
        stale_reasons == StaleReasons(prices_failed, overview_failed, funding_failed)
        is_stale == prices_failed \/ overview_failed \/ funding_failed
    IN  IF prices_failed /\ ~cached_prices.some
        THEN [status |-> 502, body |-> [detail |-> "no live prices and no cache"]]
        ELSE IF overview_failed /\ ~cached_overview.some
        THEN [status |-> 502, body |-> [detail |-> "no live overview and no cache"]]
        ELSE [status |-> 200,
              body |-> [data |->
                [generated_at |-> t,
                 prices |-> IF prices_failed THEN cached_prices.val ELSE req.p.val,
                 overview |-> IF overview_failed THEN cached_overview.val ELSE req.o.val,
                 funding |-> IF funding_failed THEN <<>> ELSE req.f.val,
                 is_stale |-> is_stale,
                 data_source |-> IF ~is_stale THEN "live" ELSE "partial_cache",
                 stale_reasons |-> stale_reasons]]]

GatherDone_first_exception(req) ==
    \/ req.p.pc = "done" /\ req.o.pc = "done" /\ req.f.pc = "done"
    \/ req.p.outcome \in {"HTTPException", "Exception"}
    \/ req.o.outcome \in {"HTTPException", "Exception"}
    \/ req.f.outcome \in {"HTTPException", "Exception"}

\* asyncio.gather(..., return_exceptions=True) returns once all three
\* coroutines have ended, whether they returned or raised
GatherDone(req) == req.p.pc = "done" /\ req.o.pc = "done" /\ req.f.pc = "done"

\* gather returns once all three coroutines have ended; the handler resumes
DashboardCompose(s) ==
    /\ reqs[s].route = "dashboard"
    /\ GatherDone(reqs[s])
    /\ LET r == DashboardResponse(reqs[s], simple_prices_cache, overview_cache, now)
       IN  last' = Respond("dashboard", r.status, r.body,
                           [coin_ids |-> reqs[s].coin_ids, symbols |-> reqs[s].symbols,
                            p |-> reqs[s].p, o |-> reqs[s].o, f |-> reqs[s].f])
    /\ reqs' = [reqs EXCEPT ![s] = Idle]
    /\ UNCHANGED <<alert_vars, scope, now, calls, simple_prices_cache, overview_cache,
                   current_cache, history_cache, fetched>>

\* The fear-greed routes wrap what the service returned; FastAPI answers an
\* HTTPException with its status and detail, any other exception with 500.
FearGreedResponse(got) ==
    IF got.outcome = "ok" THEN [status |-> 200, body |-> [data |-> got.val]]
    ELSE IF got.outcome = "HTTPException"
    THEN [status |-> 502, body |-> [detail |-> got.detail]]
    ELSE [status |-> 500, body |-> [detail |-> "Internal Server Error"]]

\* History kept with a fear-greed request for the properties: the age, when
\* the request started, of the entry it could have been served from (age0);
\* <<>> when there was none.  fetched.current_at and fetched.history_at hold
\* the time of the last successful fetch, which the service itself does not keep.
AgeAt(fetched_at, t) == IF fetched_at = <<>> THEN <<>> ELSE <<t - fetched_at[1]>>

get_fear_greed_current(s) ==
    /\ FreeSlot(s, "fear_greed")
    /\ calls' = calls + 1
    /\ reqs' = [reqs EXCEPT ![s] =
                  [route |-> "fear_greed", age0 |-> AgeAt(fetched.current_at, now)]]
    /\ last' = NoResponse
    /\ UNCHANGED <<alert_vars, scope, now, simple_prices_cache, overview_cache, current_cache,
                   history_cache, fetched>>

\* the /fng request of handler s ends
FngCurrentReturns(s, out) ==
    /\ reqs[s].route = "fear_greed"
    /\ LET got == get_current_safe(current_cache, out)
           r == FearGreedResponse(got)
       IN  /\ current_cache' = got.cache
           /\ fetched' = IF out.kind = "ok"
                         THEN [fetched EXCEPT !.current = {"current"},
                                              !.current_at = <<now>>]
                         ELSE fetched
           /\ last' = Respond("fear_greed", r.status, r.body,
                              [out |-> out, cached |-> current_cache,
                               history |-> history_cache, age0 |-> reqs[s].age0])
           /\ reqs' = [reqs EXCEPT ![s] = Idle]
    /\ UNCHANGED <<alert_vars, scope, now, calls, simple_prices_cache, overview_cache,
                   history_cache>>

\* days: int = Query(default=30, ge=1, le=100)
HistoryDays == {1, 2}

get_fear_greed_history(s, days) ==
    /\ FreeSlot(s, "fear_greed")
    /\ calls' = calls + 1
    /\ reqs' = [reqs EXCEPT ![s] =
                  [route |-> "fear_greed_history", days |-> days,
                   age0 |-> AgeAt(fetched.history_at[days], now)]]
    /\ last' = NoResponse
    /\ UNCHANGED <<alert_vars, scope, now, simple_prices_cache, overview_cache, current_cache,
                   history_cache, fetched>>

\* the /fng/?limit= request of handler s ends
FngHistoryReturns(s, out) ==
    /\ reqs[s].route = "fear_greed_history"
    /\ LET got == get_history_safe(history_cache, reqs[s].days, out)
           r == FearGreedResponse(got)
       IN  /\ history_cache' = got.cache
           /\ fetched' = IF out.kind \in {"ok", "no_data"}
                         THEN [fetched EXCEPT !.history = @ \cup {reqs[s].days},
                                              !.history_at[reqs[s].days] = <<now>>]
                         ELSE fetched
           /\ last' = Respond("fear_greed_history", r.status, r.body,
                              [out |-> out, days |-> reqs[s].days,
                               cached |-> current_cache, history |-> history_cache,
                               age0 |-> reqs[s].age0])
           /\ reqs' = [reqs EXCEPT ![s] = Idle]
    /\ UNCHANGED <<alert_vars, scope, now, calls, simple_prices_cache, overview_cache,
                   current_cache>>

-----------------------------------------------------------------------------
(* The clock *)

\* The instants at which the model looks at the system: around one TTL after
\* the start, so that ages of 1, 60, 61, 62 and 122 seconds all occur.
Instants == <<0, 60, 61, 122>>

Tick ==
    /\ scope = "dashboard" => \A s \in Slots : reqs[s] = Idle
    /\ \E i \in 1..(Len(Instants) - 1) : now = Instants[i] /\ now' = Instants[i + 1]
    /\ UNCHANGED <<alert_vars, scope, calls, simple_prices_cache, overview_cache, current_cache,
                   history_cache, reqs, fetched, last>>

-----------------------------------------------------------------------------
(* AlertsService *)

COIN_ID_BY_SYMBOL ==
    [y \in {"BTC", "ETH", "SOL", "XRP", "DOGE", "BNB", "ADA", "AVAX"} |->
        CASE y = "BTC" -> "bitcoin"
          [] y = "ETH" -> "ethereum"
          [] y = "SOL" -> "solana"
          [] y = "XRP" -> "ripple"
          [] y = "DOGE" -> "dogecoin"
          [] y = "BNB" -> "binancecoin"
          [] y = "ADA" -> "cardano"
          [] y = "AVAX" -> "avalanche-2"]

\* uuid4: an id no alert had before; the n-th alert created is alert n
AlertIds == 1..MaxAlerts

\* The bodies of POST /alerts: a supported symbol or an unsupported one, one
\* target between the quotes of snapshots 1 and 2, either direction.  The
\* target is a whole number, which round(x, 4) leaves as it is.
CreateRequests ==
    [symbol : {"BTC", "ETH", "LTC"}, target_price_usd : {150},
     direction : {"above", "below"}]

Checkers == {1, 2}

IdleCheck == [pc |-> "idle"]

create_alert(payload) ==
    /\ scope = "alerts"
    /\ IF payload.symbol \notin DOMAIN COIN_ID_BY_SYMBOL
       THEN /\ last' = [route |-> "create_alert", status |-> 400,
                        body |-> [detail |-> "unsupported symbol"]]
            /\ UNCHANGED <<_alerts, heap>>
       ELSE /\ Len(heap) < MaxAlerts
            /\ LET alert == [id |-> Len(heap) + 1,
                             symbol |-> payload.symbol,
                             target_price_usd |-> payload.target_price_usd,
                             direction |-> payload.direction,
                             is_active |-> TRUE,
                             created_at |-> now,
                             last_checked_at |-> <<>>,
                             last_triggered_at |-> <<>>,
                             trigger_count |-> 0]
               IN  /\ heap' = Append(heap, alert)
                   /\ _alerts' = _alerts \cup {alert.id}
                   /\ last' = [route |-> "create_alert", status |-> 200,
                               body |-> [data |-> alert]]
    /\ UNCHANGED <<scope, now, calls, simple_prices_cache, overview_cache,
                   current_cache, history_cache, reqs, fetched, checks, telegram,
                   notified, gone_fired>>

delete_alert(alert_id) ==
    /\ scope = "alerts"
    /\ IF alert_id \notin _alerts
       THEN /\ last' = [route |-> "delete_alert", status |-> 404,
                        body |-> [detail |-> "Alert not found"]]
            /\ _alerts' = _alerts
       ELSE /\ _alerts' = _alerts \ {alert_id}
            /\ last' = [route |-> "delete_alert", status |-> 200,
                        body |-> [data |-> [id |-> alert_id, deleted |-> TRUE]]]
    /\ UNCHANGED <<scope, now, calls, simple_prices_cache, overview_cache,
                   current_cache, history_cache, reqs, fetched, heap, checks,
                   telegram, notified, gone_fired>>

_is_triggered(alert, current_price) ==
    IF alert.direction = "above"
    THEN current_price >= alert.target_price_usd
    ELSE current_price <= alert.target_price_usd

\* price_by_symbol.get(symbol): <<price>>, or <<>> when no row with a price
\* has the symbol; a later row with the same symbol wins
PriceBySymbol(prices, symbol) ==
    LET hits == {i \in 1..Len(prices) :
                    prices[i].symbol = symbol /\ prices[i].price_usd # <<>>}
    IN  IF hits = {} THEN <<>>
        ELSE prices[CHOOSE i \in hits : \A j \in hits : j <= i].price_usd

\* [item for item in self._alerts.values() if item.is_active]: the objects
\* themselves, in insertion order, which is the order of creation
ActiveAlerts ==
    SelectSeq([i \in 1..Len(heap) |-> i],
              LAMBDA id : id \in _alerts /\ heap[id].is_active)

\* list({...}): the coin ids of the active alerts, each once, in the order
\* the set happens to iterate in
CoinIdOrders(active_alerts) ==
    LET ids == {COIN_ID_BY_SYMBOL[heap[active_alerts[i]].symbol] :
                    i \in 1..Len(active_alerts)}
        n == Cardinality(ids)
    IN  {order \in [1..n -> ids] : \A i, j \in 1..n : order[i] = order[j] => i = j}

\* "if one notification was sent, report sent"
Delivery(delivery_status, send_result) ==
    IF send_result = "sent" THEN "sent"
    ELSE IF delivery_status # "sent" THEN send_result
    ELSE delivery_status

CheckResult(chk) ==
    [checked_count |-> Len(chk.active_alerts),
     triggered_count |-> Len(chk.triggered_ids),
     triggered_alert_ids |-> chk.triggered_ids,
     checked_at |-> chk.checked_at,
     delivery |-> chk.delivery_status]

\* The for loop of check_alerts from its i-th alert to the next await (the
\* message of a triggered alert, when Telegram is configured) or to its end.
\* The loop walks the objects listed before the price fetch, whatever has
\* happened to them or to _alerts since.
RECURSIVE CheckLoop(_, _, _, _)
CheckLoop(hp, gone, chk, i) ==
    IF i > Len(chk.active_alerts)
    THEN [heap |-> hp, gone |-> gone, chk |-> [chk EXCEPT !.pc = "done"]]
    ELSE LET id == chk.active_alerts[i]
             seen == [hp EXCEPT ![id].last_checked_at = <<chk.checked_at>>]
             current_price == PriceBySymbol(chk.prices, hp[id].symbol)
         IN  IF current_price = <<>> \/ ~_is_triggered(hp[id], current_price[1])
             THEN CheckLoop(seen, gone, chk, i + 1)
             ELSE LET fired == [seen EXCEPT ![id].is_active = FALSE,
                                            ![id].last_triggered_at = <<chk.checked_at>>,
                                            ![id].trigger_count = @ + 1]
                      gone2 == IF id \in _alerts THEN gone ELSE gone \cup {id}
                      chk2 == [chk EXCEPT !.triggered_ids = Append(@, id)]
                  IN  IF telegram
                      THEN [heap |-> fired, gone |-> gone2,
                            chk |-> [chk2 EXCEPT !.pc = "await_send", !.i = i]]
                      ELSE CheckLoop(fired, gone2,
                                     [chk2 EXCEPT !.delivery_status =
                                         Delivery(@, "telegram_not_configured")],
                                     i + 1)

\* check_alerts of caller c runs on from its i-th alert
CheckRuns(c, chk, i) ==
    LET r == CheckLoop(heap, gone_fired, chk, i)
    IN  /\ heap' = r.heap
        /\ gone_fired' = r.gone
        /\ IF r.chk.pc = "done"
           THEN /\ checks' = [checks EXCEPT ![c] = IdleCheck]
                /\ last' = [route |-> "check_alerts", status |-> 200,
                            body |-> [data |-> CheckResult(r.chk)]]
           ELSE /\ checks' = [checks EXCEPT ![c] = r.chk]
                /\ last' = last

\* check_alerts as the price fetch returns or raises
CheckPriced(c, chk, fin) ==
    IF fin.task.outcome = "ok"
    THEN CheckRuns(c, [chk EXCEPT !.prices = fin.task.val, !.checked_at = now,
                                  !.p = fin.task], 1)
    ELSE /\ checks' = [checks EXCEPT ![c] = IdleCheck]
         /\ last' = [route |-> "check_alerts",
                     status |-> IF fin.task.outcome = "HTTPException" THEN 502 ELSE 500,
                     body |-> [detail |-> fin.task.detail]]
         /\ UNCHANGED <<heap, gone_fired>>

\* POST /alerts/check up to its first await
check_alerts(c) ==
    /\ scope = "alerts"
    /\ checks[c] = IdleCheck
    /\ calls < MaxChecks
    /\ calls' = calls + 1
    /\ LET active_alerts == ActiveAlerts
       IN  IF Len(active_alerts) = 0
           THEN /\ last' = [route |-> "check_alerts", status |-> 200,
                            body |-> [data |-> [checked_count |-> 0,
                                                triggered_count |-> 0,
                                                triggered_alert_ids |-> <<>>,
                                                checked_at |-> now,
                                                delivery |-> "skipped"]]]
                /\ UNCHANGED <<heap, gone_fired, checks>>
           ELSE \E coin_ids \in CoinIdOrders(active_alerts) :
                   LET task == StartPrices(simple_prices_cache, coin_ids, now)
                       chk == [pc |-> "await_prices", active_alerts |-> active_alerts,
                               p |-> task, prices |-> <<>>, checked_at |-> now,
                               triggered_ids |-> <<>>,
                               delivery_status |-> "not_triggered", i |-> 0]
                   IN  IF task.pc = "done"
                       THEN CheckPriced(c, chk, [task |-> task])
                       ELSE /\ checks' = [checks EXCEPT ![c] = chk]
                            /\ last' = last
                            /\ UNCHANGED <<heap, gone_fired>>
    /\ UNCHANGED <<scope, now, simple_prices_cache, overview_cache, current_cache,
                   history_cache, reqs, fetched, _alerts, telegram, notified>>

\* the /simple/price request of check_alerts caller c ends
CheckPricesReturn(c, out) ==
    /\ checks[c].pc = "await_prices"
    /\ LET fin == FinishPrices(checks[c].p, simple_prices_cache, now, out)
       IN  /\ simple_prices_cache' = fin.cache
           /\ fetched' = IF out.kind = "ok"
                         THEN [fetched EXCEPT !.prices = @ \cup {Join(checks[c].p.ids)}]
                         ELSE fetched
           /\ CheckPriced(c, checks[c], fin)
    /\ UNCHANGED <<scope, now, calls, overview_cache, current_cache, history_cache,
                   reqs, _alerts, telegram, notified>>

\* What _send_telegram_message returns once the message was posted
SendResults == {"sent", "send_failed"}

\* the sendMessage request of check_alerts caller c ends
SendReturns(c, send_result) ==
    /\ checks[c].pc = "await_send"
    /\ LET chk == checks[c]
           id == chk.active_alerts[chk.i]
       IN  /\ notified' = IF send_result = "sent"
                          THEN [notified EXCEPT ![id] = @ + 1]
                          ELSE notified
           /\ CheckRuns(c, [chk EXCEPT !.delivery_status = Delivery(@, send_result)],
                        chk.i + 1)
    /\ UNCHANGED <<scope, now, calls, simple_prices_cache, overview_cache,
                   current_cache, history_cache, reqs, fetched, _alerts, telegram>>

-----------------------------------------------------------------------------

\* What a dashboard request may carry: no coin ids (the default five) or
\* bitcoin alone, and no symbols (the default three)
DashboardCoinIdLists == {<<>>, <<"bitcoin">>}
SymbolLists == {<<>>}

Scopes == {"prices", "overview", "fear_greed", "funding", "dashboard"}

Init ==
    /\ scope \in Scopes
    /\ now = 0
    /\ calls = 0
    /\ simple_prices_cache = <<>>
    /\ overview_cache = Nothing
    /\ current_cache = Nothing
    /\ history_cache = <<>>
    /\ reqs = [s \in Slots |-> Idle]
    /\ fetched = [prices |-> {}, overview |-> {}, current |-> {}, history |-> {},
                  current_at |-> <<>>, history_at |-> [d \in HistoryDays |-> <<>>]]
    /\ last = NoResponse
    /\ _alerts = {}
    /\ heap = <<>>
    /\ checks = [c \in Checkers |-> IdleCheck]
    /\ telegram = FALSE
    /\ notified = [id \in AlertIds |-> 0]
    /\ gone_fired = {}

Next ==
    \/ \E s \in Slots, coin_ids \in CoinIdLists : get_market_prices(s, coin_ids)
    \/ \E s \in Slots, out \in PriceOutcomes : SimplePriceReturns(s, out)
    \/ \E s \in Slots : get_market_overview(s)
    \/ \E s \in Slots, out \in OverviewOutcomes : GlobalReturns(s, out)
    \/ \E s \in Slots, out \in OverviewOutcomes : TrendingReturns(s, out)
    \/ \E s \in Slots, coin_ids \in DashboardCoinIdLists, symbols \in SymbolLists :
            get_dashboard_data(s, coin_ids, symbols)
    \/ \E s \in Slots, symbols \in FundingSymbolLists : get_funding_rates(s, symbols)
    \/ \E s \in Slots, out \in FundingOutcomes : BinanceReturns(s, out)
    \/ \E s \in Slots, out \in FundingOutcomes : BybitReturns(s, out)
    \/ \E s \in Slots : DashboardCompose(s)
    \/ \E s \in Slots : get_fear_greed_current(s)
    \/ \E s \in Slots, out \in FngOutcomes : FngCurrentReturns(s, out)
    \/ \E s \in Slots, days \in HistoryDays : get_fear_greed_history(s, days)
    \/ \E s \in Slots, out \in FngOutcomes : FngHistoryReturns(s, out)
    \/ Tick

Spec == Init /\ [][Next]_vars

\* The cache-lookup specification: /market/prices requests arrive one after the
\* other, for the default list, a pair and a single coin,
\* so that a request can find several cached entries that cover it.
LookupCoinIdLists == {<<>>, <<"bitcoin", "ethereum">>, <<"bitcoin">>}

get_market_prices_in_turn(coin_ids) ==
    /\ scope = "lookup"
    /\ \A s \in Slots : reqs[s] = Idle
    /\ calls < MaxLookupCalls
    /\ AcceptPrices(1, coin_ids)

InitLookup ==
    /\ scope = "lookup"
    /\ now = 0
    /\ calls = 0
    /\ simple_prices_cache = <<>>
    /\ overview_cache = Nothing
    /\ current_cache = Nothing
    /\ history_cache = <<>>
    /\ reqs = [s \in Slots |-> Idle]
    /\ fetched = [prices |-> {}, overview |-> {}, current |-> {}, history |-> {},
                  current_at |-> <<>>, history_at |-> [d \in HistoryDays |-> <<>>]]
    /\ last = NoResponse
    /\ _alerts = {}
    /\ heap = <<>>
    /\ checks = [c \in Checkers |-> IdleCheck]
    /\ telegram = FALSE
    /\ notified = [id \in AlertIds |-> 0]
    /\ gone_fired = {}

NextLookup ==
    \/ \E coin_ids \in LookupCoinIdLists : get_market_prices_in_turn(coin_ids)
    \/ \E s \in Slots, out \in PriceOutcomes : SimplePriceReturns(s, out)
    \/ Tick

SpecLookup == InitLookup /\ [][NextLookup]_vars

\* The alerts specification: alerts are created, deleted and checked, by up
\* to two overlapping check_alerts calls, with Telegram configured or not,
\* all within one instant of the clock (so within one TTL).
InitAlerts ==
    /\ scope = "alerts"
    /\ now = 0
    /\ calls = 0
    /\ simple_prices_cache = <<>>
    /\ overview_cache = Nothing
    /\ current_cache = Nothing
    /\ history_cache = <<>>
    /\ reqs = [s \in Slots |-> Idle]
    /\ fetched = [prices |-> {}, overview |-> {}, current |-> {}, history |-> {},
                  current_at |-> <<>>, history_at |-> [d \in HistoryDays |-> <<>>]]
    /\ last = NoResponse
    /\ _alerts = {}
    /\ heap = <<>>
    /\ checks = [c \in Checkers |-> IdleCheck]
    /\ telegram \in BOOLEAN
    /\ notified = [id \in AlertIds |-> 0]
    /\ gone_fired = {}

NextAlerts ==
    \/ \E payload \in CreateRequests : create_alert(payload)
    \/ \E alert_id \in AlertIds : delete_alert(alert_id)
    \/ \E c \in Checkers : check_alerts(c)
    \/ \E c \in Checkers, out \in PriceOutcomes : CheckPricesReturn(c, out)
    \/ \E c \in Checkers, send_result \in SendResults : SendReturns(c, send_result)

SpecAlerts == InitAlerts /\ [][NextAlerts]_vars

-----------------------------------------------------------------------------
(* Properties *)

Answered(route) == last.route = route

\* the call behind a task went upstream and did not come back with data
LiveFetchFailed(task) == task.nreq > 0 /\ task.failure # ""

HasFallbackReason(body) ==
    "fallback_reason" \in DOMAIN body /\ body.fallback_reason # ""

StaleAt(entry, t) == entry.some /\ t - entry.val.cached_at > cache_ttl_seconds

\* C1: on /market/prices and /market/overview, when the cache holds V under
\* the requested key, V is older than the TTL and the live fetch fails with an
\* upstream or connectivity error, the response's data is V, is_stale is true
\* and fallback_reason is present and not empty.
C1_StaleFallbackOnRoutes ==
    /\ (/\ Answered("prices")
        /\ LiveFetchFailed(last.hist.p)
        /\ last.hist.p.failure \in HttpFailures
        /\ StaleAt(ExactEntry(last.prices_cache, last.hist.p.ids), last.now))
       => /\ last.status = 200
          /\ last.body.data = ExactEntry(last.prices_cache, last.hist.p.ids).val.data
          /\ last.body.is_stale = TRUE
          /\ HasFallbackReason(last.body)
    /\ (/\ Answered("overview")
        /\ LiveFetchFailed(last.hist.o)
        /\ last.hist.o.failure \in HttpFailures
        /\ StaleAt(last.overview_cache, last.now))
       => /\ last.status = 200
          /\ last.body.data = last.overview_cache.val.data
          /\ last.body.is_stale = TRUE
          /\ HasFallbackReason(last.body)

PricesTags == {"prices: coingecko_cache"}
OverviewTags == {"overview: coingecko_cache"}
FundingTags == {"funding: unavailable"}

Tagged(body, tags) ==
    /\ body.data.is_stale = TRUE
    /\ \E i \in 1..Len(body.data.stale_reasons) : body.data.stale_reasons[i] \in tags

\* C2: in every dashboard response, is_stale is true and stale_reasons names
\* the sub-resolution whenever prices or overview was served from the cache
\* after a failed live fetch, or funding was omitted because its resolution
\* raised.
C2_DashboardStaleness ==
    (Answered("dashboard") /\ last.status = 200) =>
        /\ (LiveFetchFailed(last.hist.p) /\ last.hist.p.path = "stale_cache")
              => Tagged(last.body, PricesTags)
        /\ (LiveFetchFailed(last.hist.o) /\ last.hist.o.path = "stale_cache")
              => Tagged(last.body, OverviewTags)
        /\ last.hist.f.outcome = "Exception"
              => Tagged(last.body, FundingTags)

\* C3: a call of get_simple_prices / get_market_overview made when the entry
\* under the exact key is at most cache_ttl_seconds old issues no upstream
\* request and returns exactly the cached payload, and the caller reports it
\* as not stale.
C3_FreshHitBypass ==
    /\ \A s \in Slots :
          /\ reqs[s].route \in {"prices", "dashboard"} /\ reqs[s].p.within0
                => /\ reqs[s].p.nreq = 0
                   /\ reqs[s].p.outcome = "ok"
                   /\ reqs[s].p.val = reqs[s].p.entry0.val.data
          /\ reqs[s].route \in {"overview", "dashboard"} /\ reqs[s].o.within0
                => /\ reqs[s].o.nreq = 0
                   /\ reqs[s].o.outcome = "ok"
                   /\ reqs[s].o.val = reqs[s].o.entry0.val.data
    /\ (Answered("prices") /\ last.hist.p.within0)
          => /\ last.hist.p.nreq = 0
             /\ last.status = 200
             /\ last.body.data = last.hist.p.entry0.val.data
             /\ last.body.is_stale = FALSE
    /\ (Answered("overview") /\ last.hist.o.within0)
          => /\ last.hist.o.nreq = 0
             /\ last.status = 200
             /\ last.body.data = last.hist.o.entry0.val.data
             /\ last.body.is_stale = FALSE
    /\ (Answered("dashboard") /\ last.hist.p.within0)
          => /\ last.hist.p.nreq = 0
             /\ last.status = 200
                   => /\ last.body.data.prices = last.hist.p.entry0.val.data
                      /\ ~Tagged(last.body, PricesTags)
    /\ (Answered("dashboard") /\ last.hist.o.within0)
          => /\ last.hist.o.nreq = 0
             /\ last.status = 200
                   => /\ last.body.data.overview = last.hist.o.entry0.val.data
                      /\ ~Tagged(last.body, OverviewTags)

\* C3 witness: /market/prices answered from an entry exactly TTL seconds old
C3_Witness ==
    /\ Answered("prices")
    /\ last.hist.p.within0
    /\ last.now - last.hist.p.entry0.val.cached_at = cache_ttl_seconds
    /\ last.hist.p.nreq = 0
    /\ last.body.is_stale = FALSE

\* some cached entry has a row for every one of ids
Covered(cache, ids) ==
    \E i \in 1..Len(cache) : Range(ids) \subseteq RowIds(cache[i].data)

\* the cases of "no successful fetch for the key has ever completed and the
\* live fetch fails", read off the response just given
PricesNeverFetchedFailed ==
    /\ last.route \in {"prices", "dashboard"}
    /\ LiveFetchFailed(last.hist.p)
    /\ Join(last.hist.p.ids) \notin last.fetched.prices

OverviewNeverFetchedFailed ==
    /\ last.route \in {"overview", "dashboard"}
    /\ LiveFetchFailed(last.hist.o)
    /\ last.fetched.overview = {}

CurrentNeverFetchedFailed ==
    /\ Answered("fear_greed")
    /\ last.hist.out.kind \in Failures \cup {"no_data"}
    /\ last.fetched.current = {}

HistoryNeverFetchedFailed ==
    /\ Answered("fear_greed_history")
    /\ last.hist.out.kind \in Failures
    /\ last.hist.days \notin last.fetched.history

IsError(resp) == resp.status \in {500, 502} /\ "data" \notin DOMAIN resp.body

\* C4 as stated: for prices, overview, fear-greed current and fear-greed
\* history and every key, when no fetch for the key has ever succeeded and the
\* live fetch fails, the caller receives an error.
C4_NoCacheFatal_AsStated ==
    (\/ PricesNeverFetchedFailed
     \/ OverviewNeverFetchedFailed
     \/ CurrentNeverFetchedFailed
     \/ HistoryNeverFetchedFailed) => IsError(last)

\* C4: when no fetch for the key has ever succeeded and the live fetch fails,
\* the caller receives an error - for prices provided that no cached entry of
\* another key has a row for every requested coin id.
C4_NoCacheFatalUnlessCovered ==
    (\/ PricesNeverFetchedFailed /\ ~Covered(last.prices_cache, last.hist.p.ids)
     \/ OverviewNeverFetchedFailed
     \/ CurrentNeverFetchedFailed
     \/ HistoryNeverFetchedFailed) => IsError(last)

\* C4 witness: /market/prices is refused for a never-fetched key while the
\* cache holds another key's entry that does not cover the request
C4_Witness ==
    /\ Answered("prices")
    /\ PricesNeverFetchedFailed
    /\ last.prices_cache # <<>>
    /\ ~Covered(last.prices_cache, last.hist.p.ids)
    /\ last.status = 502

\* C5: a dashboard whose prices resolution failed with no cached prices
\* available for the requested ids, or whose overview resolution failed with
\* no cached overview, is answered with 502 and no payload, whatever the other
\* sub-fetches did.
C5_EssentialResourcesFatal ==
    (/\ Answered("dashboard")
     /\ \/ /\ last.hist.p.failure # ""
           /\ ~ExactEntry(last.prices_cache, last.hist.p.ids).some
           /\ ~Covered(last.prices_cache, last.hist.p.ids)
        \/ /\ last.hist.o.failure # ""
           /\ ~last.overview_cache.some)
    => /\ last.status = 502
       /\ "data" \notin DOMAIN last.body

\* C5 witness: prices and funding resolved, the overview failed with nothing
\* cached, and the dashboard answered 502
C5_Witness ==
    /\ Answered("dashboard")
    /\ last.hist.p.path = "live"
    /\ last.hist.f.outcome = "ok"
    /\ last.hist.o.failure # ""
    /\ ~last.overview_cache.some
    /\ last.status = 502

\* C6: a dashboard whose prices and overview resolved and whose two exchange
\* calls both failed is answered 200 with funding = [], is_stale = true, a
\* funding tag in stale_reasons, and prices and overview as resolved.
C6_PartialDegradation ==
    (/\ Answered("dashboard")
     /\ last.hist.p.outcome = "ok" /\ last.hist.p.failure = ""
     /\ last.hist.o.outcome = "ok" /\ last.hist.o.failure = ""
     /\ last.hist.f.binance_failed /\ last.hist.f.bybit_failed)
    => /\ last.status = 200
       /\ last.body.data.funding = <<>>
       /\ Tagged(last.body, FundingTags)
       /\ last.body.data.prices = last.hist.p.val
       /\ last.body.data.overview = last.hist.o.val

\* rows is the projection of one covering entry of cache onto ids: one row per
\* id, in the order of ids, each the cached row of that entry with that id
ProjectionOf(rows, cache, ids) ==
    /\ Len(rows) = Len(ids)
    /\ \A k \in 1..Len(ids) : rows[k].id = ids[k]
    /\ \E i \in 1..Len(cache) :
          /\ Range(ids) \subseteq RowIds(cache[i].data)
          /\ \A k \in 1..Len(ids) :
                \E j \in 1..Len(cache[i].data) : cache[i].data[j] = rows[k]

\* C7: when the prices cache has no entry under the exact requested key but an
\* entry whose rows cover every requested id, get_cached_simple_prices returns
\* one row per requested id, each equal to the cached row with that id, in the
\* order requested - for every request list, and in the response of
\* /market/prices that falls back to it.
C7_SupersetProjection ==
    /\ \A coin_ids \in CoinIdLists :
          LET ids == OrDefault(coin_ids)
              got == get_cached_simple_prices(simple_prices_cache, coin_ids)
          IN  (~ExactEntry(simple_prices_cache, ids).some
               /\ Covered(simple_prices_cache, ids))
              => got.some /\ ProjectionOf(got.val, simple_prices_cache, ids)
    /\ (/\ Answered("prices")
        /\ last.hist.p.failure \in HttpFailures
        /\ ~ExactEntry(last.prices_cache, last.hist.p.ids).some
        /\ Covered(last.prices_cache, last.hist.p.ids))
       => /\ last.status = 200
          /\ ProjectionOf(last.body.data, last.prices_cache, last.hist.p.ids)

\* C7 witness: /market/prices answered by projection, the requested order not
\* being the order of the cached rows
C7_Witness ==
    /\ Answered("prices")
    /\ last.hist.p.path = "stale_cache"
    /\ ~ExactEntry(last.prices_cache, last.hist.p.ids).some
    /\ last.hist.p.ids = <<"ethereum", "bitcoin">>
    /\ Len(last.body.data) = 2
    /\ last.body.data[1].id = "ethereum"

\* C8: get_fresh_cached_simple_prices returns a value only when an entry under
\* exactly the key of the ids exists and is within the TTL, and then that
\* entry's payload; a call that finds no such entry goes upstream even when a
\* larger entry is fresh.
C8_FreshReadExactKey ==
    /\ \A coin_ids \in CoinIdLists :
          LET ids == OrDefault(coin_ids)
              got == get_fresh_cached_simple_prices(simple_prices_cache, ids, now)
              entry == ExactEntry(simple_prices_cache, ids)
          IN  got.some => /\ WithinTtl(entry, now)
                          /\ got.val = entry.val.data
    /\ \A s \in Slots :
          reqs[s].route \in {"prices", "dashboard"} /\ ~reqs[s].p.within0
              => reqs[s].p.nreq = 1
    /\ (last.route \in {"prices", "dashboard"} /\ last.hist.p.path = "fresh_cache")
          => last.hist.p.within0 /\ last.hist.p.val = last.hist.p.entry0.val.data

\* C8 witness: a request is waiting for upstream although a fresh entry of
\* another key has a row for each of its ids
C8_Witness ==
    \E s \in Slots :
        /\ reqs[s].route = "prices"
        /\ reqs[s].p.pc = "await"
        /\ ~reqs[s].p.entry0.some
        /\ \E i \in 1..Len(simple_prices_cache) :
              /\ Range(reqs[s].p.ids) \subseteq RowIds(simple_prices_cache[i].data)
              /\ WithinTtl(Some(simple_prices_cache[i]), now)

\* C9: a request naming the same coin ids as a cached entry within the TTL, in
\* whatever order, has that entry's key and is a fresh hit that issues no
\* upstream request.
C9_KeyOrderInsensitive ==
    /\ \A s \in Slots :
          reqs[s].route = "prices" /\ reqs[s].p.alias0 => reqs[s].p.nreq = 0
    /\ (Answered("prices") /\ last.hist.p.alias0)
          => /\ last.hist.p.nreq = 0
             /\ last.hist.p.path = "fresh_cache"

UniqueKeys(cache) ==
    \A i, j \in 1..Len(cache) : cache[i].key = cache[j].key => i = j

HasKey(cache, key) == \E i \in 1..Len(cache) : cache[i].key = key

\* entry is what a successful fetch at time t with this payload must leave
StoredAt(entry, payload, t) ==
    /\ entry.data = payload
    /\ "cached_at" \in DOMAIN entry
    /\ entry.cached_at = t

\* the lifecycle of the two CoinGecko caches
LifecycleCoinGecko ==
    /\ UniqueKeys(simple_prices_cache)
    /\ \A key \in fetched.prices : HasKey(simple_prices_cache, key)
    /\ fetched.overview # {} => overview_cache.some
    /\ (Answered("prices") /\ last.hist.p.path = "live")
          => StoredAt(DictGet(simple_prices_cache, Join(last.hist.p.ids)).val,
                      last.body.data, last.now)
    /\ (Answered("overview") /\ last.hist.o.path = "live")
          => StoredAt(overview_cache.val, last.body.data, last.now)

\* the lifecycle of the two Fear & Greed caches
LifecycleFearGreed ==
    /\ UniqueKeys(history_cache)
    /\ \A days \in fetched.history : HasKey(history_cache, days)
    /\ fetched.current # {} => current_cache.some
    /\ (Answered("fear_greed") /\ last.hist.out.kind = "ok")
          => /\ current_cache.some
             /\ StoredAt([data |-> current_cache.val] @@ current_cache.val,
                         [k \in DOMAIN current_cache.val |-> last.body.data[k]],
                         last.now)
    /\ (Answered("fear_greed_history") /\ last.hist.out.kind \in {"ok", "no_data"})
          => StoredAt(DictGet(history_cache, last.hist.days).val,
                      last.body.data, last.now)

\* C10: each cache holds at most one entry per key; a key that was fetched
\* successfully has an entry ever after; and right after a successful live
\* fetch the key's entry holds the payload just returned and cached_at = now.
C10_CacheEntryLifecycle == LifecycleCoinGecko /\ LifecycleFearGreed

\* the row built from the newest item of upstream snapshot q
FreshCurrent(q) ==
    [value |-> ParseInt(FngItem(q, 1).value),
     value_classification |-> FngItem(q, 1).value_classification,
     timestamp |-> ParseInt(FngItem(q, 1).timestamp),
     time_updated |-> FormatUtc(ParseInt(FngItem(q, 1).timestamp))]

\* row carries every field of v, with v's value
CarriesFields(row, v) ==
    /\ DOMAIN v \subseteq DOMAIN row
    /\ \A k \in DOMAIN v : row[k] = v[k]

\* C11: when the live fetch of the current index fails with an upstream error
\* and a value V is cached, /market/fear-greed answers V's fields with
\* is_stale = true, data_source "alternative_me_cache" and fallback_reason the
\* failure's detail; when the fetch succeeds it answers the fresh value with
\* is_stale = false.
C11_CurrentFallback ==
    /\ (/\ Answered("fear_greed")
        /\ last.hist.out.kind \in HttpFailures \cup {"no_data"}
        /\ last.hist.cached.some)
       => /\ last.status = 200
          /\ CarriesFields(last.body.data, last.hist.cached.val)
          /\ last.body.data.is_stale = TRUE
          /\ last.body.data.data_source = "alternative_me_cache"
          /\ last.body.data.fallback_reason = FearGreedDetail(last.hist.out.kind)
    /\ (Answered("fear_greed") /\ last.hist.out.kind = "ok")
       => /\ last.status = 200
          /\ CarriesFields(last.body.data, FreshCurrent(last.hist.out.q))
          /\ last.body.data.is_stale = FALSE
          /\ "fallback_reason" \notin DOMAIN last.body.data

\* C11 witness: the cached value differs from what upstream last held, and it
\* is served flagged after a failed fetch
C11_Witness ==
    /\ Answered("fear_greed")
    /\ last.hist.out.kind = "status_error"
    /\ last.hist.cached.some
    /\ last.status = 200
    /\ last.body.data.is_stale = TRUE
    /\ last.body.data.value = last.hist.cached.val.value

\* the response says that its data is stale
MarkedStale(body) == "is_stale" \in DOMAIN body /\ body.is_stale = TRUE

\* C12: whenever /market/fear-greed/history serves the cached history of the
\* requested days because the live fetch failed, the response marks the data
\* as stale.
C12_HistoryStaleFlagged ==
    (/\ Answered("fear_greed_history")
     /\ last.hist.out.kind \in HttpFailures
     /\ HasKey(last.hist.history, last.hist.days))
    => /\ last.status = 200
       /\ last.body.data = DictGet(last.hist.history, last.hist.days).val.data
       /\ MarkedStale(last.body)

\* C13: a fear-greed current or history request that starts when the entry
\* for its key was written at that very instant - within every TTL - is
\* answered from the cache: it issues no upstream request.
C13_FearGreedFreshHitBypass ==
    \A s \in Slots :
        reqs[s].route \in {"fear_greed", "fear_greed_history"}
            => reqs[s].age0 # <<0>>

\* C14: when the upstream answers with a payload that cannot be decoded and a
\* value is cached for the key, each single-resource route answers 200 with
\* the cached value instead of an error.
C14_MalformedPayloadFallsBack ==
    /\ (/\ Answered("prices")
        /\ last.hist.p.failure = "bad_json"
        /\ ExactEntry(last.prices_cache, last.hist.p.ids).some)
       => /\ last.status = 200
          /\ last.body.data = ExactEntry(last.prices_cache, last.hist.p.ids).val.data
    /\ (/\ Answered("overview")
        /\ last.hist.o.failure = "bad_json"
        /\ last.overview_cache.some)
       => /\ last.status = 200
          /\ last.body.data = last.overview_cache.val.data
    /\ (/\ Answered("fear_greed")
        /\ last.hist.out.kind = "bad_json"
        /\ last.hist.cached.some)
       => /\ last.status = 200
          /\ CarriesFields(last.body.data, last.hist.cached.val)
    /\ (/\ Answered("fear_greed_history")
        /\ last.hist.out.kind = "bad_json"
        /\ HasKey(last.hist.history, last.hist.days))
       => /\ last.status = 200
          /\ last.body.data = DictGet(last.hist.history, last.hist.days).val.data

\* the non-null rates a merged row carries
RowRates(row) ==
    (IF row.binance # <<>> /\ row.binance[1].funding_rate # <<>>
     THEN <<row.binance[1].funding_rate[1]>> ELSE <<>>)
    \o (IF row.bybit # <<>> /\ row.bybit[1].funding_rate # <<>>
        THEN <<row.bybit[1].funding_rate[1]>> ELSE <<>>)

\* avg is the arithmetic mean of rates: avg = sum / count, or null for none
IsMeanOf(avg, rates) ==
    IF Len(rates) = 0 THEN avg = <<>>
    ELSE /\ avg # <<>>
         /\ avg[1].den > 0
         /\ avg[1].num * Len(rates) =
               (IF Len(rates) = 1 THEN rates[1] ELSE rates[1] + rates[2]) * avg[1].den

\* cell is what the exchange's rows say of symbol: null without a row
IsCellOf(cell, rows, symbol) ==
    IF \A i \in 1..Len(rows) : rows[i].symbol # symbol THEN cell = <<>>
    ELSE /\ cell # <<>>
         /\ \E i \in 1..Len(rows) :
               /\ rows[i].symbol = symbol
               /\ cell[1].funding_rate = rows[i].funding_rate
               /\ cell[1].next_funding_time = rows[i].next_funding_time

RanToItsEnd(task) ==
    /\ task.pc = "done"
    /\ task.outcome \in {"ok", "HTTPException", "Exception"}

\* C16: the dashboard gives its response or its 502 only when its prices,
\* overview and funding tasks have all ended; one that failed stops neither of
\* the others, so a funding task that did not itself raise has asked both
\* exchanges and an overview task that did not fail has asked for both parts.
C16_NoShortCircuit ==
    Answered("dashboard") =>
        /\ RanToItsEnd(last.hist.p)
        /\ RanToItsEnd(last.hist.o)
        /\ RanToItsEnd(last.hist.f)
        /\ last.hist.p.path \in {"fresh_cache", "live", "stale_cache", "error"}
        /\ last.hist.o.path \in {"fresh_cache", "live", "stale_cache", "error"}
        /\ last.hist.o.path = "live" => last.hist.o.nreq = 2
        /\ last.hist.f.outcome = "ok" => last.hist.f.val # <<>>

\* C16 witness: the prices task raised, the other two ran to a live result,
\* and only then was the dashboard refused
C16_Witness ==
    /\ Answered("dashboard")
    /\ last.hist.p.outcome = "Exception"
    /\ last.hist.o.path = "live"
    /\ last.hist.f.outcome = "ok" /\ ~last.hist.f.binance_failed
    /\ last.status = 502

\* C17: a prices or overview call that starts without a fresh entry for its
\* key issues its own upstream request, whatever other requests for the key
\* are in flight, and is answered from that request's outcome - never from
\* the entry another request wrote meanwhile.
C17_NoDeduplication ==
    /\ \A s \in Slots :
          /\ reqs[s].route = "prices" /\ ~reqs[s].p.within0
                => reqs[s].p.pc = "await" /\ reqs[s].p.nreq = 1
          /\ reqs[s].route = "overview" /\ ~reqs[s].o.within0
                => reqs[s].o.pc \in {"await_global", "await_trending"}
                   /\ reqs[s].o.nreq >= 1
    /\ (Answered("prices") /\ ~last.hist.p.within0)
          => /\ last.hist.p.nreq = 1
             /\ last.hist.p.path # "fresh_cache"
             /\ last.hist.p.failure = "" => last.hist.p.path = "live"
    /\ (Answered("overview") /\ ~last.hist.o.within0)
          => /\ last.hist.o.nreq >= 1
             /\ last.hist.o.path # "fresh_cache"
             /\ last.hist.o.failure = "" => last.hist.o.path = "live"

\* C17 witness: two requests for the same key are both waiting for their own
\* /simple/price request
C17_Witness ==
    \E s1, s2 \in Slots :
        /\ s1 # s2
        /\ reqs[s1].route = "prices" /\ reqs[s2].route = "prices"
        /\ reqs[s1].p.ids = reqs[s2].p.ids
        /\ reqs[s1].p.pc = "await" /\ reqs[s2].p.pc = "await"
        /\ reqs[s1].p.nreq = 1 /\ reqs[s2].p.nreq = 1

\* rows has exactly one row for each of ids and no other row
OneRowEach(rows, ids) ==
    /\ RowIds(rows) = Range(ids)
    /\ Len(rows) = Cardinality(Range(ids))

\* C18: every successful result of the prices resolver - from a live fetch, a
\* fresh hit or a stale read - has exactly one row for each requested coin id
\* and no other rows.
C18_OneRowPerCoin ==
    /\ \A s \in Slots :
          (/\ reqs[s].route \in {"prices", "dashboard"}
           /\ reqs[s].p.pc = "done" /\ reqs[s].p.outcome = "ok")
          => OneRowEach(reqs[s].p.val, reqs[s].p.ids)
    /\ (last.route \in {"prices", "dashboard"} /\ last.hist.p.outcome = "ok")
          => OneRowEach(last.hist.p.val, last.hist.p.ids)

\* rows are in descending order of market cap, a null cap counting as zero
CapDescending(rows) ==
    \A i, j \in 1..Len(rows) :
        i < j => OrZero(rows[i].market_cap) >= OrZero(rows[j].market_cap)

\* each row has the price and the market cap, null included, that one
\* upstream snapshot gives for its coin
CapsAsUpstream(rows) ==
    \A i \in 1..Len(rows) :
        \E q \in Quotes :
            /\ rows[i].price_usd = CoinData(q, rows[i].id).usd
            /\ rows[i].market_cap = MarketCap(q, rows[i].id)

\* the prices result of the response just given, when there is one
PricesReturned ==
    /\ last.route \in {"prices", "dashboard"}
    /\ last.hist.p.outcome = "ok"

\* the result was projected from a covering entry of another key
Projected(resp) ==
    /\ resp.hist.p.path = "stale_cache"
    /\ ~ExactEntry(resp.prices_cache, resp.hist.p.ids).some

\* C19 as stated: every list the prices resolver returns is in descending
\* order of market cap, null counting as zero and staying null in the row.
C19_SortedByCap_AsStated ==
    PricesReturned => /\ CapDescending(last.hist.p.val)
                      /\ CapsAsUpstream(last.hist.p.val)

\* C19: every list the prices resolver returns from a live fetch or from the
\* entry under the exact key (fresh or stale) is in descending order of market
\* cap, null counting as zero and staying null in the row; a list projected
\* from a covering entry is in the order the ids were requested.
C19_SortedByCapUnlessProjected ==
    /\ (PricesReturned /\ ~Projected(last))
          => /\ CapDescending(last.hist.p.val)
             /\ CapsAsUpstream(last.hist.p.val)
    /\ (PricesReturned /\ Projected(last))
          => /\ CapsAsUpstream(last.hist.p.val)
             /\ \A k \in 1..Len(last.hist.p.val) :
                   last.hist.p.val[k].id = last.hist.p.ids[k]

\* C19 witness: a live result whose rows were reordered, the null cap last
C19_Witness ==
    /\ Answered("prices")
    /\ last.hist.p.path = "live"
    /\ last.hist.p.ids = <<"bitcoin", "ethereum">>
    /\ Len(last.body.data) = 2
    /\ last.body.data[1].id = "ethereum"
    /\ last.body.data[2].market_cap = <<>>

OneSimplePrice(task) ==
    /\ task.nreq <= 1
    /\ task.pc = "await" => task.nreq = 1
    /\ task.failure # "" => task.nreq = 1 /\ task.pc = "done" /\ task.path # "live"

\* the requests an overview task may have issued: none on a fresh hit, one
\* /global, and one /search/trending only after /global succeeded
OneGlobalOneTrending(task) ==
    /\ task.nreq <= 2
    /\ task.pc = "await_global" => task.nreq = 1
    /\ task.pc = "await_trending" => task.nreq = 2 /\ task.global_data # <<>>
    /\ (task.failure # "" /\ task.global_data = <<>>) => task.nreq = 1
    /\ task.failure # "" => task.pc = "done" /\ task.path # "live"

\* C21: a resolver call issues at most one /simple/price, at most one /global
\* and one /search/trending, one /fng; its first failed request ends the live
\* attempt, and the call then answers from the cache or fails.
C21_NoRetries ==
    /\ \A s \in Slots :
          /\ reqs[s].route \in {"prices", "dashboard"} => OneSimplePrice(reqs[s].p)
          /\ reqs[s].route \in {"overview", "dashboard"}
                => OneGlobalOneTrending(reqs[s].o)
    /\ last.route \in {"prices", "dashboard"} => OneSimplePrice(last.hist.p)
    /\ last.route \in {"overview", "dashboard"} => OneGlobalOneTrending(last.hist.o)
    /\ (Answered("fear_greed") /\ last.hist.out.kind # "ok")
          => \/ last.status # 200
             \/ /\ last.hist.cached.some
                /\ CarriesFields(last.body.data, last.hist.cached.val)
    /\ (Answered("fear_greed_history") /\ last.hist.out.kind \in Failures)
          => \/ last.status # 200
             \/ last.body.data = DictGet(last.hist.history, last.hist.days).val.data

\* C21 witness: /global failed, /search/trending was never asked for, and the
\* cached overview was returned
C21_Witness ==
    /\ Answered("overview")
    /\ last.hist.o.failure \in HttpFailures
    /\ last.hist.o.global_data = <<>>
    /\ last.hist.o.nreq = 1
    /\ last.hist.o.path = "stale_cache"

\* the entries of a cache whose rows cover every requested id, by position
\* (position is insertion order)
Covering(cache, ids) ==
    {i \in 1..Len(cache) : Range(ids) \subseteq RowIds(cache[i].data)}

\* the rows a request for ids gets out of one entry
RowsOutOf(entry, ids) == [k \in 1..Len(ids) |-> RowById(entry.data, ids[k])]

\* /market/prices has just answered from the cache after a failed fetch, the
\* cache held no entry under the requested key and several that cover it
AnsweredFromOneOfSeveral ==
    /\ Answered("prices")
    /\ last.hist.p.failure \in HttpFailures
    /\ ~ExactEntry(last.prices_cache, last.hist.p.ids).some
    /\ Cardinality(Covering(last.prices_cache, last.hist.p.ids)) >= 2

\* C22: when no entry has the exact key and several entries cover the requested
\* ids, the rows returned come from a covering entry with the fewest coin ids.
C22_SmallestSuperset ==
    AnsweredFromOneOfSeveral =>
        LET cache == last.prices_cache
            ids == last.hist.p.ids
            smallest == {i \in Covering(cache, ids) :
                            \A j \in Covering(cache, ids) :
                                Len(KeyIds(cache[i].key)) <= Len(KeyIds(cache[j].key))}
        IN  \E i \in smallest : last.body.data = RowsOutOf(cache[i], ids)

\* C23: when no entry has the exact key and several entries cover the requested
\* ids, the rows returned come from the covering entry that was inserted first,
\* whichever of them was written last - in the response of /market/prices and
\* for every request list read against the cache.
C23_FirstInsertedWins ==
    /\ AnsweredFromOneOfSeveral =>
          LET cache == last.prices_cache
              ids == last.hist.p.ids
              first == CHOOSE i \in Covering(cache, ids) :
                           \A j \in Covering(cache, ids) : i <= j
          IN  last.status = 200 /\ last.body.data = RowsOutOf(cache[first], ids)
    /\ \A coin_ids \in LookupCoinIdLists :
          LET ids == OrDefault(coin_ids)
              cov == Covering(simple_prices_cache, ids)
          IN  (~ExactEntry(simple_prices_cache, ids).some /\ cov # {})
              => get_cached_simple_prices(simple_prices_cache, coin_ids) =
                   Some(RowsOutOf(simple_prices_cache[CHOOSE i \in cov :
                                                         \A j \in cov : i <= j], ids))

\* C23 witness: the answer came from the first-inserted entry although a
\* later-inserted covering entry held other rows and was written before it was
\* last refreshed
C23_Witness ==
    /\ AnsweredFromOneOfSeveral
    /\ LET cache == last.prices_cache
           ids == last.hist.p.ids
       IN  \E i, j \in Covering(cache, ids) :
              /\ i < j
              /\ cache[i].cached_at > cache[j].cached_at
              /\ RowsOutOf(cache[i], ids) # RowsOutOf(cache[j], ids)
              /\ last.body.data = RowsOutOf(cache[i], ids)

\* C23 witness of the other order: the first-inserted entry is also the one
\* written longest ago
C23_WitnessOlder ==
    /\ AnsweredFromOneOfSeveral
    /\ LET cache == last.prices_cache
           ids == last.hist.p.ids
       IN  \E i, j \in Covering(cache, ids) :
              /\ i < j
              /\ cache[i].cached_at < cache[j].cached_at
              /\ RowsOutOf(cache[i], ids) # RowsOutOf(cache[j], ids)
              /\ last.body.data = RowsOutOf(cache[i], ids)

\* C24: in every successful /market/dashboard payload, data_source is "live"
\* exactly when is_stale is false and "partial_cache" exactly when it is true,
\* and stale_reasons is empty exactly when is_stale is false.
C24_DashboardSelfConsistent ==
    (Answered("dashboard") /\ last.status = 200) =>
        LET d == last.body.data
        IN  /\ d.is_stale \in BOOLEAN
            /\ (d.data_source = "live") <=> ~d.is_stale
            /\ (d.data_source = "partial_cache") <=> d.is_stale
            /\ (d.stale_reasons = <<>>) <=> ~d.is_stale

\* C24 witness: a dashboard degraded by the funding source alone
C24_Witness ==
    /\ Answered("dashboard")
    /\ last.status = 200
    /\ last.body.data.is_stale
    /\ last.body.data.data_source = "partial_cache"
    /\ last.body.data.stale_reasons = <<"funding: unavailable">>

\* C24 witness of the other side: a live dashboard
C24_WitnessLive ==
    /\ Answered("dashboard")
    /\ last.status = 200
    /\ ~last.body.data.is_stale
    /\ last.body.data.data_source = "live"
    /\ last.body.data.stale_reasons = <<>>

Keys(cache) == {cache[i].key : i \in 1..Len(cache)}

\* the keys whose entry (payload or cached_at) a step adds, changes or removes
Touched(before, after) ==
    {k \in Keys(before) \cup Keys(after) : DictGet(after, k) # DictGet(before, k)}

\* a step in which a resolver call ends without fresh data from upstream: a
\* fresh hit, a stale fallback or an error
EndsWithoutFetch ==
    \/ last'.route = "prices" /\ last'.hist.p.path # "live"
    \/ last'.route = "overview" /\ last'.hist.o.path # "live"
    \/ /\ last'.route \in {"fear_greed", "fear_greed_history"}
       /\ last'.hist.out.kind \notin {"ok", "no_data"}
    \/ \E s \in Slots :
          /\ reqs[s].route = "dashboard" /\ reqs'[s].route = "dashboard"
          /\ \/ /\ reqs[s].p.pc # "done"
                /\ reqs'[s].p.pc = "done"
                /\ reqs'[s].p.path # "live"
             \/ /\ reqs[s].o.pc # "done"
                /\ reqs'[s].o.pc = "done"
                /\ reqs'[s].o.path # "live"

\* a step in which get_simple_prices for the key k ends with upstream's data
FetchedPrices(k) ==
    \/ /\ last'.route = "prices"
       /\ last'.hist.p.path = "live"
       /\ _simple_prices_cache_key(last'.hist.p.ids) = k
    \/ \E s \in Slots :
          /\ reqs[s].route = "dashboard" /\ reqs[s].p.pc = "await"
          /\ reqs'[s].p.path = "live"
          /\ _simple_prices_cache_key(reqs[s].p.ids) = k

\* C25: a resolver call that ends in a fresh hit, a stale fallback or an error
\* leaves every cache entry, payload and cached_at, as it was; an entry changes
\* only in the step in which a fetch for its own key succeeds.
C25_ReadsAndFailuresFrame ==
    [][/\ EndsWithoutFetch =>
              /\ simple_prices_cache' = simple_prices_cache
              /\ overview_cache' = overview_cache
              /\ current_cache' = current_cache
              /\ history_cache' = history_cache
       /\ \A k \in Touched(simple_prices_cache, simple_prices_cache') : FetchedPrices(k)
       /\ \A k \in Touched(history_cache, history_cache') :
              /\ last'.route = "fear_greed_history"
              /\ last'.hist.out.kind \in {"ok", "no_data"}
              /\ last'.hist.days = k
       /\ current_cache' # current_cache =>
              last'.route = "fear_greed" /\ last'.hist.out.kind = "ok"
       /\ overview_cache' # overview_cache =>
              \/ last'.route = "overview" /\ last'.hist.o.path = "live"
              \/ \E s \in Slots :
                    /\ reqs[s].route = "dashboard" /\ reqs[s].o.pc = "await_trending"
                    /\ reqs'[s].o.path = "live"]_vars

\* C25 witness: /market/prices has served a cached entry older than the TTL
\* after a failed fetch, and the entry still carries its cached_at
C25_Witness ==
    /\ Answered("prices")
    /\ last.hist.p.path = "stale_cache"
    /\ last.hist.p.entry0.some
    /\ last.now - last.hist.p.entry0.val.cached_at > cache_ttl_seconds
    /\ DictGet(simple_prices_cache, Join(last.hist.p.ids)) = last.hist.p.entry0
    /\ simple_prices_cache = last.prices_cache

\* C25 witness of the other part: a fetch for one key has succeeded while the
\* cache held an entry under another key, which is as it was
C25_WitnessOtherKey ==
    /\ Answered("prices")
    /\ last.hist.p.path = "live"
    /\ \E i \in 1..Len(last.prices_cache) :
          /\ last.prices_cache[i].key # Join(last.hist.p.ids)
          /\ DictGet(simple_prices_cache, last.prices_cache[i].key)
                = Some(last.prices_cache[i])

\* the get_market_overview task of handler s, before and after a step
OverviewTaskOf(rs, s) ==
    IF rs[s].route \in {"overview", "dashboard"} THEN Some(rs[s].o) ELSE Nothing

\* a step in which the get_market_overview of handler s ends
OverviewEnds(s) ==
    /\ OverviewTaskOf(reqs, s).some
    /\ reqs[s].o.pc \in {"await_global", "await_trending"}
    /\ \/ reqs[s].route = "overview" /\ reqs'[s] = Idle
       \/ reqs[s].route = "dashboard" /\ reqs'[s].o.pc = "done"

\* the task as it ended
OverviewEnded(s) == IF reqs[s].route = "overview" THEN last'.hist.o ELSE reqs'[s].o

\* C26: the overview cache is written only in the step in which the trending
\* request of a call succeeds, that call's global request having succeeded
\* before it, and then with that call's global stats and that answer's trending
\* lists; a call whose global request fails issues no trending request; a call
\* in which either request fails leaves the cached overview as it was.
C26_OverviewAllOrNothing ==
    [][/\ overview_cache' # overview_cache =>
              \E s \in Slots :
                 /\ OverviewEnds(s)
                 /\ reqs[s].o.pc = "await_trending"
                 /\ reqs[s].o.nreq = 2
                 /\ reqs[s].o.global_data # <<>>
                 /\ OverviewEnded(s).path = "live"
                 /\ \E q \in Quotes :
                       overview_cache' =
                           Some([cached_at |-> now,
                                 data |-> [global |-> reqs[s].o.global_data,
                                           trending |-> Trending(TrendingPayload(q),
                                                                 TrendingLimit)]])
       /\ \A s \in Slots :
              (OverviewEnds(s) /\ OverviewEnded(s).failure # "") =>
                 /\ overview_cache' = overview_cache
                 /\ reqs[s].o.pc = "await_global" =>
                        OverviewEnded(s).nreq = 1 /\ OverviewEnded(s).global_data = <<>>]_vars

\* C26 witness: a call whose global request succeeded and whose trending
\* request failed has ended, and the cache still holds the overview of an
\* earlier call, with other global stats than this call received
C26_Witness ==
    /\ Answered("overview")
    /\ last.hist.o.failure \in HttpFailures
    /\ last.hist.o.global_data # <<>>
    /\ last.overview_cache.some
    /\ overview_cache = last.overview_cache
    /\ overview_cache.val.data.global # last.hist.o.global_data

\* a step in which the get_simple_prices of handler s ends
PricesEnds(s) ==
    /\ reqs[s].route \in {"prices", "dashboard"}
    /\ reqs[s].p.pc = "await"
    /\ \/ reqs[s].route = "prices" /\ reqs'[s] = Idle
       \/ reqs[s].route = "dashboard" /\ reqs'[s].p.pc = "done"

PricesEnded(s) == IF reqs[s].route = "prices" THEN last'.hist.p ELSE reqs'[s].p

\* C27: whichever of several overlapping calls for a key ends, and in whatever
\* order they began, the step in which a fetch succeeds leaves under the key
\* the normalized payload of that fetch with cached_at the time of that step,
\* and no other step changes the entry; an entry served as fresh was written,
\* so received, at most cache_ttl_seconds before it is served.
C27_LatestCompletedFetch ==
    [][/\ \A s \in Slots :
              (PricesEnds(s) /\ PricesEnded(s).path = "live") =>
                 LET ids == reqs[s].p.ids
                     key == _simple_prices_cache_key(ids)
                 IN  /\ DictGet(simple_prices_cache', key) =
                            Some([key |-> key, cached_at |-> now,
                                  data |-> PricesEnded(s).val])
                     /\ \E q \in Quotes :
                            PricesEnded(s).val =
                              SortedByMarketCap(
                                NormalizePrices(SimplePricePayload(q, ids), ids))
       /\ \A s \in Slots :
              (OverviewEnds(s) /\ OverviewEnded(s).path = "live") =>
                 overview_cache' = Some([cached_at |-> now,
                                         data |-> OverviewEnded(s).val])
       /\ \A k \in Touched(simple_prices_cache, simple_prices_cache') :
              \E s \in Slots :
                 /\ PricesEnds(s)
                 /\ PricesEnded(s).path = "live"
                 /\ _simple_prices_cache_key(reqs[s].p.ids) = k
       /\ overview_cache' # overview_cache =>
              \E s \in Slots : OverviewEnds(s) /\ OverviewEnded(s).path = "live"
       /\ (last'.route = "prices" /\ last'.hist.p.path = "fresh_cache") =>
              LET entry == DictGet(simple_prices_cache',
                                   _simple_prices_cache_key(last'.hist.p.ids))
              IN  /\ entry.some
                  /\ last'.body.data = entry.val.data
                  /\ entry.val.cached_at <= last'.now
                  /\ last'.now - entry.val.cached_at <= cache_ttl_seconds
       /\ (last'.route = "overview" /\ last'.hist.o.path = "fresh_cache") =>
              /\ overview_cache'.some
              /\ last'.body.data = overview_cache'.val.data
              /\ overview_cache'.val.cached_at <= last'.now
              /\ last'.now - overview_cache'.val.cached_at <= cache_ttl_seconds]_vars

\* C27 witness: while a call for a key was waiting for upstream, another call
\* for the same key wrote the entry; the first call then succeeded with other
\* data, and the entry now holds that data and the time of its arrival
C27_Witness ==
    /\ Answered("prices")
    /\ last.hist.p.path = "live"
    /\ LET key == Join(last.hist.p.ids)
           before == DictGet(last.prices_cache, key)
           after == DictGet(simple_prices_cache, key)
       IN  /\ before.some
           /\ before # last.hist.p.entry0
           /\ before.val.data # last.body.data
           /\ before.val.cached_at < last.now
           /\ after = Some([key |-> key, cached_at |-> last.now,
                            data |-> last.body.data])

NormalizedFields == {"value", "value_classification", "timestamp", "time_updated"}

\* C28: the Fear & Greed current cache holds the normalized fields and no
\* others, whatever get_current_safe calls came before; a successful response
\* carries no fallback_reason, and a stale one carries the cached fields, its
\* own flags and the reason of its own failure.
C28_NoFlagsInCache ==
    /\ current_cache.some => DOMAIN current_cache.val = NormalizedFields
    /\ (Answered("fear_greed") /\ last.status = 200) =>
          LET d == last.body.data
          IN  IF last.hist.out.kind = "ok"
              THEN /\ DOMAIN d = NormalizedFields \cup {"is_stale", "data_source"}
                   /\ d.is_stale = FALSE
                   /\ d.data_source = "alternative_me"
              ELSE /\ DOMAIN d = NormalizedFields
                                   \cup {"is_stale", "data_source", "fallback_reason"}
                   /\ d.is_stale = TRUE
                   /\ d.data_source = "alternative_me_cache"
                   /\ d.fallback_reason = FearGreedDetail(last.hist.out.kind)
                   /\ \A f \in NormalizedFields : d[f] = last.hist.cached.val[f]

\* C28 witness: a stale response has been given and the cache is as the
\* earlier successful fetch left it, without flags
C28_Witness ==
    /\ Answered("fear_greed")
    /\ last.status = 200
    /\ last.body.data.is_stale = TRUE
    /\ "fallback_reason" \in DOMAIN last.body.data
    /\ current_cache.some
    /\ current_cache = last.hist.cached
    /\ DOMAIN current_cache.val = NormalizedFields

\* C29: whatever the interleaving of create_alert, delete_alert and
\* overlapping check_alerts calls, every alert has trigger_count at most 1, is
\* active exactly when its trigger_count is 0, and has had at most one
\* notification sent.
C29_FiresAtMostOnce ==
    \A id \in 1..Len(heap) :
        /\ heap[id].trigger_count <= 1
        /\ heap[id].is_active <=> heap[id].trigger_count = 0
        /\ notified[id] <= 1

\* C29, the part that holds: an alert that became inactive never becomes
\* active again, and is active exactly when its trigger_count is 0.
C29_NeverActiveAgain ==
    [][\A id \in 1..Len(heap) :
          /\ ~heap[id].is_active => ~heap'[id].is_active
          /\ heap'[id].is_active <=> heap'[id].trigger_count = 0]_vars

\* C30: once delete_alert(id) has returned true, no check_alerts call
\* triggers the alert: none lists id in triggered_alert_ids or sends a
\* notification for it, whenever that call began.
C30_DeletedNeverTriggered ==
    /\ gone_fired = {}
    /\ (last.route = "check_alerts" /\ last.status = 200) =>
          \A k \in 1..Len(last.body.data.triggered_alert_ids) :
              last.body.data.triggered_alert_ids[k] \notin gone_fired
====
